---- MODULE Spec2Model ----
(***************************************************************************)
(* The persistent worker pool of hwp-parser: HWPConverter (core/converter) *)
(* owning a list of worker processes and two multiprocessing queues, and   *)
(* worker_main (core/worker), the loop every worker process runs.          *)
(*                                                                         *)
(* Strings that the program builds (error messages, contents) are          *)
(* sequences of string tokens, so that "the message contains the error    *)
(* text" is a sub-sequence test.  Korean message literals are written in   *)
(* English; the source line is given in MODEL_MAP.json.                    *)
(***************************************************************************)
EXTENDS Integers, Sequences, FiniteSets, TLC

\* ------------------------------------------------------------- bounds
MaxWorkers == 2      \* num_workers ranges over 1..MaxWorkers
MaxTasks == 2        \* no call is started once _task_counter reached it
MaxStarts == 2       \* number of times the pool may be (re)started
MaxLifeTasks == 1    \* the same as MaxTasks, in the lifecycle specification
MaxHtml == 2         \* number of pieces of an HTML body that is post-processed

\* -------------------------------------------------------------- state
VARIABLES
    conv,      \* the HWPConverter instance: num_workers, _workers, _input_queue,
               \* _output_queue, _task_counter, _worker_started
    procs,     \* every worker process ever launched, by process number
    inq,       \* the input Queue objects ever created, by creation number
    outq,      \* the output Queue objects ever created, by creation number
    dirs,      \* the scratch directories that exist
    caller,    \* the threads calling into the converter, each with its position
    tasklog,   \* history: the task_id of every task ever put on an input
               \* queue, with the queue
    outlog     \* history: task_id and success of every WorkerResult ever put
               \* on an output queue

vars == <<conv, procs, inq, outq, dirs, caller, tasklog, outlog>>

\* ------------------------------------------------------------- values
None == <<"None">>
NoQueue == 0

\* num_workers=None, the default of the constructor; the code tests
\* "is None" before it compares the number
NumWorkersNone == -1

\* Paths a caller may hand to convert(): three existing documents (one the
\* toolkit converts, one it rejects, one for which it writes no output), a
\* path that does not exist and a directory.
Paths == {"doc.hwp", "corrupt.hwp", "empty.hwp", "missing.hwp", "somedir"}
IsDir(p) == p = "somedir"
Exists(p) == p # "missing.hwp"

SUPPORTED_FORMATS == {"txt", "html", "markdown", "odt"}
Formats == SUPPORTED_FORMATS \cup {"pdf"}

\* The calls the threads make: every format and every kind of path occurs,
\* with conversions that succeed and conversions that fail.
Requests ==
    {<<"doc.hwp", "txt">>, <<"doc.hwp", "html">>, <<"corrupt.hwp", "markdown">>,
     <<"empty.hwp", "odt">>, <<"missing.hwp", "txt">>, <<"somedir", "html">>,
     <<"doc.hwp", "pdf">>}

NoneTask == [task_id |-> 0, file_path |-> "", output_format |-> "None"]

WorkerTask(id, p, f) == [task_id |-> id, file_path |-> p, output_format |-> f]

WorkerResult(id, ok, content, css, bindata, err) ==
    [task_id |-> id, success |-> ok, content |-> content,
     css_content |-> css, bindata |-> bindata, error |-> err]

NoResult == WorkerResult(0, FALSE, None, None, None, None)

\* ------------------------------------------------------------ backend
\* Mutant of Hwp5Transform: the toolkit keeps state between tasks and
\* refuses every document once a conversion has failed.
Hwp5TransformPoisoned(p) ==
    IF \E i \in DOMAIN outlog : ~outlog[i].success
    THEN [raises |-> <<"toolkit state is broken">>, files |-> {}]
    ELSE CASE p = "doc.hwp" ->
                [raises |-> None, files |-> {"index.xhtml", "styles.css", "bindata"}]
           [] p = "empty.hwp" -> [raises |-> None, files |-> {}]
           [] OTHER -> [raises |-> <<"InvalidHwp5FileError: ", p>>, files |-> {}]

\* What the toolkit leaves in the output directory and whether it raises.
Hwp5Transform(p) ==
    CASE p \in {"doc.hwp", "complex.hwp"} ->
           [raises |-> None, files |-> {"index.xhtml", "styles.css", "bindata"}]
      [] p = "empty.hwp" -> [raises |-> None, files |-> {}]
      [] p = "corrupt.hwp" -> [raises |-> <<"InvalidHwp5FileError: ", p>>, files |-> {}]
      [] OTHER -> [raises |-> <<"FileNotFoundError: ", p>>, files |-> {}]

\* The hwp5odt command: exit code, stderr, files written.
Hwp5Odt(p) ==
    CASE p = "doc.hwp" -> [returncode |-> 0, stderr |-> <<>>, files |-> {"out.odt"}]
      [] p = "empty.hwp" -> [returncode |-> 0, stderr |-> <<>>, files |-> {}]
      [] p = "complex.hwp" ->
           [returncode |-> 1, stderr |-> <<"ValidationFailed: ", "RelaxNG", p>>,
            files |-> {}]
      [] OTHER -> [returncode |-> 1, stderr |-> <<"hwp5odt: cannot read ", p>>,
                   files |-> {}]

\* The index.xhtml the toolkit writes for document p: its name, a link and
\* an emphasised word.
Xhtml(p) == <<"xhtml", p, "link", "em">>

Outcome(exc, content, css, bindata, files) ==
    [exc |-> exc, content |-> content, css_content |-> css,
     bindata |-> bindata, files |-> files]

_convert_to_html_dir(p) ==
    LET t == Hwp5Transform(p) IN
    IF t.raises # None
    THEN Outcome(t.raises, None, None, None, t.files)
    ELSE IF "index.xhtml" \notin t.files
    THEN Outcome(<<"HTML conversion failed: no result file - ", p>>,
                 None, None, None, t.files)
    ELSE Outcome(None, Xhtml(p),
                 IF "styles.css" \in t.files THEN <<"css", p>> ELSE <<>>,
                 IF "bindata" \in t.files THEN <<"bindata", p>> ELSE <<>>,
                 t.files)

_convert_to_odt(p) ==
    LET r == Hwp5Odt(p) IN
    IF r.returncode # 0
    THEN Outcome(<<"ODT conversion failed: ", p, "\n">> \o r.stderr,
                 None, None, None, r.files)
    ELSE IF "out.odt" \notin r.files
    THEN Outcome(<<"ODT conversion failed: no result file - ", p>>,
                 None, None, None, r.files)
    ELSE Outcome(None, <<"odt", p>>, None, None, r.files)

\* --------------------------------------------- HTML post-processing
\* An HTML body is a sequence of pieces: a link <a href="u">w</a> ("link"),
\* an emphasised word <em>w</em> ("em"), an image ("img"), an escaped
\* entity &amp;lt; that html parsing turns into the text &lt; ("ent"), a
\* literal asterisk ("star"); any other piece is a plain word.  A text is a
\* sequence of the pieces written for them, with "<nl>" for a run of
\* line breaks.
HtmlPieces == {"w", "link", "em", "img", "ent", "star"}

RECURSIVE Flatten(_)
Flatten(ss) == IF ss = <<>> THEN <<>> ELSE Head(ss) \o Flatten(Tail(ss))

RECURSIVE lstrip(_)
lstrip(s) == IF s # <<>> /\ Head(s) = "<nl>" THEN lstrip(Tail(s)) ELSE s

RECURSIVE rstrip(_)
rstrip(s) ==
    IF s # <<>> /\ s[Len(s)] = "<nl>" THEN rstrip(SubSeq(s, 1, Len(s) - 1)) ELSE s

\* str.strip()
strip(s) == lstrip(rstrip(s))

\* html.unescape(text)
html_unescape(s) == [i \in DOMAIN s |-> IF s[i] = "&lt;" THEN "<" ELSE s[i]]

\* for escape in markdown_escapes: text = text.replace(escape, escape[1:])
RemoveEscapes(s) == [i \in DOMAIN s |-> IF s[i] = "\\*" THEN "*" ELSE s[i]]

\* html2text.HTML2Text().handle(html) with ignore_images = True and
\* body_width = 0, for the options the two callers set differently; the
\* text ends with line breaks
HTML2Text_handle(x, ignore_links, ignore_emphasis, escape_snob) ==
    Flatten([i \in DOMAIN x |->
        CASE x[i] = "link" -> IF ignore_links THEN <<"w">> ELSE <<"[w](u)">>
          [] x[i] = "em" -> IF ignore_emphasis THEN <<"w">> ELSE <<"_w_">>
          [] x[i] = "img" -> <<>>
          [] x[i] = "ent" -> <<"&lt;">>
          [] x[i] = "star" -> IF escape_snob THEN <<"\\*">> ELSE <<"*">>
          [] OTHER -> <<x[i]>>]) \o <<"<nl>">>

\* html_to_markdown.convert(html, options); the text ends with a line break
convert(x, escape_misc) ==
    Flatten([i \in DOMAIN x |->
        CASE x[i] = "link" -> <<"[w](u)">>
          [] x[i] = "em" -> <<"*w*">>
          [] x[i] = "img" -> <<"![](i)">>
          [] x[i] = "ent" -> <<"&lt;">>
          [] x[i] = "star" -> IF escape_misc THEN <<"\\*">> ELSE <<"*">>
          [] OTHER -> <<x[i]>>]) \o <<"<nl>">>

\* ConversionOptions().escape_misc, the default of the library
ESCAPE_MISC_DEFAULT == FALSE

\* worker._html_to_text
_html_to_text(x) == strip(HTML2Text_handle(x, TRUE, TRUE, FALSE))

\* worker._html_to_markdown
_html_to_markdown(x) == strip(convert(x, ESCAPE_MISC_DEFAULT))

\* HWPConverter.to_text, per-call strategy, step 2: HTML -> text
to_text_step2(x) == RemoveEscapes(html_unescape(HTML2Text_handle(x, FALSE, FALSE, TRUE)))

\* HWPConverter.to_markdown, per-call strategy, step 2: HTML -> Markdown
to_markdown_step2(x) == html_unescape(convert(x, FALSE))

\* The body of the try block of worker_main up to the put: the format
\* dispatch.  exc is the message of the exception raised, None if none.
Dispatch(task) ==
    LET p == task.file_path
        h == _convert_to_html_dir(p)
    IN CASE task.output_format = "html" -> h
         [] task.output_format = "txt" ->
              IF h.exc # None THEN h
              ELSE Outcome(None, _html_to_text(h.content), None, None, h.files)
         [] task.output_format = "markdown" ->
              IF h.exc # None THEN h
              ELSE Outcome(None, _html_to_markdown(h.content), None, None, h.files)
         [] task.output_format = "odt" -> _convert_to_odt(p)
         [] OTHER -> Outcome(<<"unsupported format: ", task.output_format>>,
                             None, None, None, {})

\* Mutant of TryPuts: a success is announced by a first result and then
\* put in full.
TryPutsAnnounced(task) ==
    LET o == Dispatch(task) IN
    IF o.exc = None
    THEN <<WorkerResult(task.task_id, TRUE, None, None, None, None),
           WorkerResult(task.task_id, TRUE, o.content, o.css_content, o.bindata, None)>>
    ELSE <<>>

\* The results the try block puts on the output queue.
TryPuts(task) ==
    LET o == Dispatch(task) IN
    IF o.exc = None
    THEN <<WorkerResult(task.task_id, TRUE, o.content, o.css_content, o.bindata, None)>>
    ELSE <<>>

\* Mutant of ExceptPuts: the failure result carries what was converted so
\* far.
ExceptPutsWithContent(task, e) ==
    <<WorkerResult(task.task_id, FALSE, <<"partial">>, None, None, e)>>

\* Mutant of ExceptPuts: the failure is reported in the except block and
\* once more on the way out.
ExceptPutsTwice(task, e) ==
    <<WorkerResult(task.task_id, FALSE, None, None, None, e),
      WorkerResult(task.task_id, FALSE, None, None, None, e)>>

\* Mutant of ExceptPuts: the exception is swallowed without a report.
ExceptPutsNothing(task, e) == <<>>

\* The results the except block puts on the output queue for exception e.
ExceptPuts(task, e) ==
    <<WorkerResult(task.task_id, FALSE, None, None, None, e)>>

\* -------------------------------------------------------- converter
\* __exit__ returns None: a false value, the exception of the body is not
\* suppressed
ExitSwallows == FALSE

NoRet == [kind |-> "none", msg |-> <<>>, content |-> None]

\* A thread that uses the converter: where it is (pc), the arguments and
\* task_id of its conversion call, the WorkerResult it read (got), how its
\* last operation ended (ret), its position in the join loop (j), whether it
\* is outside a with block, in its body or in __exit__ (ctx), the
\* exception that left the body (exc), and the number of the scratch
\* directory of its conversion in the calling process (temp_dir, 0 if none).
NewCaller ==
    [pc |-> "idle", file_path |-> "", output_format |-> "", task_id |-> 0,
     got |-> NoResult, ret |-> NoRet, j |-> 0, ctx |-> "out", exc |-> "none",
     temp_dir |-> 0]

\* the thread c at the start of its next operation, of a with statement or not
Fresh(c) == [NewCaller EXCEPT !.ctx = caller[c].ctx, !.exc = caller[c].exc]

\* an operation that returned None
ReturnedNone(op) == [kind |-> "None", msg |-> <<op>>, content |-> None]

\* Mutant of NewConverter: the pool counts as started from construction.
NewConverterStarted(n) ==
    [num_workers |-> n, _workers |-> <<>>, _input_queue |-> NoQueue,
     _output_queue |-> NoQueue, _task_counter |-> 0, _worker_started |-> TRUE]

\* HWPConverter.__init__
NewConverter(n) ==
    [num_workers |-> n, _workers |-> <<>>, _input_queue |-> NoQueue,
     _output_queue |-> NoQueue, _task_counter |-> 0, _worker_started |-> FALSE]

\* Process(target=worker_main, args=(input_queue, output_queue)).start()
NewWorker(iq, oq) ==
    [pc |-> "get", input_queue |-> iq, output_queue |-> oq,
     task |-> NoneTask, died |-> "no"]

InitWith(ncallers, workers) ==
    /\ conv \in {NewConverter(n) : n \in workers}
    /\ procs = <<>>
    /\ inq = <<>>
    /\ outq = <<>>
    /\ dirs = {}
    /\ caller = [c \in 1..ncallers |-> NewCaller]
    /\ tasklog = <<>>
    /\ outlog = <<>>

\* one thread uses the converter (the usage of every collaborator)
Init == InitWith(1, 1..MaxWorkers)

\* two threads use the same converter
InitConc == InitWith(2, 1..MaxWorkers)

\* one thread uses a converter constructed with any num_workers: None, 0 or
\* a positive number
InitLife == InitWith(1, {NumWorkersNone, 0} \cup 1..MaxWorkers)

\* --------------------------------------------------- HWPConverter: pool
\* Mutant of NewQueue: a start after a shutdown takes the queue objects of
\* the pool before.
NewQueueRecycled(qs) == IF qs = <<>> THEN 1 ELSE Len(qs)

\* Queue(): a queue object that did not exist before, empty
NewQueue(qs) == Len(qs) + 1

\* Mutant of Started: the started flag is left as it was.
StartedUnflagged(cv, q, first) ==
    [cv EXCEPT !._input_queue = q, !._output_queue = q,
               !._workers = @ \o [i \in 1..cv.num_workers |-> first + i - 1]]

\* The converter after _start_workers launched its processes on queue q,
\* the first of them being process number first.
Started(cv, q, first) ==
    [cv EXCEPT !._input_queue = q, !._output_queue = q,
               !._workers = @ \o [i \in 1..cv.num_workers |-> first + i - 1],
               !._worker_started = TRUE]

\* Mutant of StartIsNoop: the started flag is not looked at.
StartIsNoopIgnoringStarted(cv) ==
    cv.num_workers = NumWorkersNone \/ cv.num_workers <= 0

\* _start_workers returns at once
StartIsNoop(cv) ==
    cv._worker_started \/ cv.num_workers = NumWorkersNone \/ cv.num_workers <= 0

\* _start_workers, as next-state relation on conv, procs, inq, outq
_start_workers ==
    IF StartIsNoop(conv)
    THEN UNCHANGED <<conv, procs, inq, outq>>
    ELSE LET q == NewQueue(inq) IN
         /\ inq' = Append(inq, <<>>)
         /\ outq' = Append(outq, <<>>)
         /\ procs' = procs \o [i \in 1..conv.num_workers |-> NewWorker(q, q)]
         /\ conv' = Started(conv, q, Len(procs) + 1)

\* Mutant of Cleared: the shutdown also resets the task counter.
ClearedWithCounter(cv) ==
    [cv EXCEPT !._workers = <<>>, !._input_queue = NoQueue,
               !._output_queue = NoQueue, !._worker_started = FALSE,
               !._task_counter = 0]

\* Mutant of Cleared: the started flag is not reset.
ClearedStillStarted(cv) ==
    [cv EXCEPT !._workers = <<>>, !._input_queue = NoQueue,
               !._output_queue = NoQueue]

\* The converter after the last four statements of _shutdown_workers.
Cleared(cv) ==
    [cv EXCEPT !._workers = <<>>, !._input_queue = NoQueue,
               !._output_queue = NoQueue, !._worker_started = FALSE]

Alive(w) == w.pc \notin {"exited", "crashed", "terminated", "reaped"}

\* A process that has ended: its locals are gone, how it ended is kept.
Ended(w, how, why) == [w EXCEPT !.pc = how, !.died = why, !.task = NoneTask]

\* A process ended by an exception that left worker_main in function why.
Crashed(w, why) == Ended(w, "crashed", why)

\* Mutant of Terminated: the process ignores the signal and runs on.
TerminatedIgnored(w) == w

\* worker.terminate(): the process ends where it is, between two tasks or
\* in the middle of one
Terminated(w) == Ended(w, "terminated", IF w.pc = "get" THEN w.died ELSE "terminate")

\* self._workers.clear(): the Process objects of the handles are dropped;
\* of a process that has ended only the cause of an abnormal end is kept
Dropped(cv, ps) ==
    [p \in DOMAIN ps |->
        IF (\E i \in DOMAIN cv._workers : cv._workers[i] = p) /\ ~Alive(ps[p])
        THEN Ended(ps[p], "reaped", ps[p].died)
        ELSE ps[p]]

\* self._input_queue = None / self._output_queue = None: the Queue object
\* is dropped with whatever it still holds
DroppedQueue(qs, q) == IF q = NoQueue THEN qs ELSE [qs EXCEPT ![q] = <<>>]

\* an explicit call of _start_workers (also __enter__)
StartWorkers(c) ==
    /\ caller[c].pc = "idle"
    /\ ~StartIsNoop(conv) => Len(inq) < MaxStarts
    /\ _start_workers
    /\ caller' = [caller EXCEPT ![c] =
                    [Fresh(c) EXCEPT !.ret = ReturnedNone("_start_workers")]]
    /\ UNCHANGED <<dirs, tasklog, outlog>>

\* The thread when _shutdown_workers has returned: a call made by __exit__
\* ends the with statement, and __exit__ returning None lets the exception
\* of the body propagate.
AfterShutdown(cr) ==
    IF cr.ctx = "exit"
    THEN [cr EXCEPT !.pc = "idle", !.j = 0, !.ctx = "out", !.exc = "none",
                    !.ret = IF ExitSwallows \/ cr.exc = "none"
                            THEN ReturnedNone("with")
                            ELSE [kind |-> cr.exc, msg |-> <<"with">>, content |-> None]]
    ELSE [cr EXCEPT !.pc = "idle", !.j = 0, !.ret = ReturnedNone("_shutdown_workers")]

\* Mutant of StopSignals: one stop signal for the whole pool.
StopSignalsOnce(cv) == <<NoneTask>>

\* The stop signals _shutdown_workers puts on the input queue for its handles.
StopSignals(cv) == [i \in 1..Len(cv._workers) |-> NoneTask]

\* Mutant of HasInputQueue: the stop signals are put without the test.
HasInputQueueUnchecked(cv) == TRUE

\* if self._input_queue: in the loop that puts the stop signals
HasInputQueue(cv) == cv._input_queue # NoQueue

\* Mutant of ShutdownIsNoop: no early return.
ShutdownIsNoopNever(cv) == FALSE

\* _shutdown_workers returns at once
ShutdownIsNoop(cv) == ~cv._worker_started

\* _shutdown_workers up to its first join, as next-state relation: the early
\* return, or one None per handle on the input queue if there is one
_shutdown_workers_begin(c, cr) ==
    /\ IF ShutdownIsNoop(conv)
       THEN /\ caller' = [caller EXCEPT ![c] = AfterShutdown(cr)]
            /\ UNCHANGED inq
       ELSE IF HasInputQueue(conv) /\ StopSignals(conv) # <<>>
            THEN IF conv._input_queue = NoQueue
                 THEN \* None.put raises and leaves _shutdown_workers
                      /\ caller' = [caller EXCEPT ![c] =
                            [cr EXCEPT !.pc = "idle", !.ctx = "out", !.exc = "none",
                                       !.ret = [kind |-> "AttributeError",
                                                msg |-> <<"NoneType has no put">>,
                                                content |-> None]]]
                      /\ UNCHANGED inq
                 ELSE /\ inq' = [inq EXCEPT ![conv._input_queue] = @ \o StopSignals(conv)]
                      /\ caller' = [caller EXCEPT ![c] =
                                      [cr EXCEPT !.pc = "join", !.j = 1]]
            ELSE /\ UNCHANGED inq
                 /\ caller' = [caller EXCEPT ![c] = [cr EXCEPT !.pc = "join", !.j = 1]]
    /\ UNCHANGED <<conv, procs, outq, dirs, tasklog, outlog>>

\* an explicit call of _shutdown_workers, up to its first join
ShutdownBegin(c) ==
    /\ caller[c].pc = "idle"
    /\ _shutdown_workers_begin(c, Fresh(c))

\* worker.join(timeout) for the j-th handle: the process has ended, or the
\* timeout passes with the process alive and it is terminated
Join(c) ==
    /\ caller[c].pc = "join"
    /\ caller[c].j <= Len(conv._workers)
    /\ LET p == conv._workers[caller[c].j] IN
       procs' = IF Alive(procs[p])
                THEN [procs EXCEPT ![p] = Terminated(@)]
                ELSE procs
    /\ caller' = [caller EXCEPT ![c].j = @ + 1]
    /\ UNCHANGED <<conv, inq, outq, dirs, tasklog, outlog>>

\* the end of _shutdown_workers
ShutdownEnd(c) ==
    /\ caller[c].pc = "join"
    /\ caller[c].j > Len(conv._workers)
    /\ conv' = Cleared(conv)
    /\ procs' = Dropped(conv, procs)
    /\ inq' = DroppedQueue(inq, conv._input_queue)
    /\ outq' = DroppedQueue(outq, conv._output_queue)
    /\ caller' = [caller EXCEPT ![c] = AfterShutdown(@)]
    /\ UNCHANGED <<dirs, tasklog, outlog>>

\* ------------------------------------------------ HWPConverter: convert
\* Mutant of _validate_file: the existence test is left to the worker.
_validate_file_NoExists(p) == IF IsDir(p) THEN "ValueError" ELSE "ok"

\* The exception _validate_file raises, "ok" if none.
_validate_file(p) ==
    IF IsDir(p) THEN "ValueError"
    ELSE IF ~Exists(p) THEN "FileNotFoundError"
    ELSE "ok"

\* Mutant of ValidationError: the to_* method is looked up and validates
\* the path before the format is tested.
ValidationErrorPathFirst(p, f) ==
    IF _validate_file(p) # "ok" THEN _validate_file(p)
    ELSE IF f \notin SUPPORTED_FORMATS THEN "ValueError" ELSE "ok"

\* The exception convert() raises before any conversion, "ok" if none: the
\* format test of convert, then _validate_file in the to_* method.
ValidationError(p, f) ==
    IF f \notin SUPPORTED_FORMATS THEN "ValueError" ELSE _validate_file(p)

ValidationMessage(p, f) ==
    IF f \notin SUPPORTED_FORMATS THEN <<"unsupported format: ", f>>
    ELSE IF IsDir(p) THEN <<"a directory was given: ", p>>
    ELSE <<"file not found: ", p>>

\* Mutant of _use_worker: worker mode whatever num_workers is.
_use_worker_always(cv) == TRUE

_use_worker(cv) == cv.num_workers # NumWorkersNone /\ cv.num_workers > 0

\* a thread calls convert(file_path, output_format): convert and the to_*
\* method up to the call of _convert_via_worker / _convert_html_via_worker
Call(c, p, f) ==
    /\ caller[c].pc = "idle"
    /\ conv._task_counter < MaxTasks
    /\ conv._worker_started \/ Len(inq) < MaxStarts
    /\ LET e == ValidationError(p, f)
           this == [Fresh(c) EXCEPT !.file_path = p, !.output_format = f]
       IN caller' = [caller EXCEPT ![c] =
            IF e # "ok"
            THEN [this EXCEPT !.ret = [kind |-> e, msg |-> ValidationMessage(p, f),
                                       content |-> None]]
            ELSE [this EXCEPT !.pc = "submit"]]
    /\ UNCHANGED <<conv, procs, inq, outq, dirs, tasklog, outlog>>

NextTaskId(counter) == counter + 1

\* _convert_via_worker / _convert_html_via_worker: the start of the pool if
\* it is not started, and self._task_counter += 1
SubmitStart(c) ==
    /\ caller[c].pc = "submit"
    /\ _use_worker(conv)
    /\ LET q == NewQueue(inq)
           launch == ~StartIsNoop(conv)
           cv == IF launch THEN Started(conv, q, Len(procs) + 1) ELSE conv
       IN /\ inq' = IF launch THEN Append(inq, <<>>) ELSE inq
          /\ outq' = IF launch THEN Append(outq, <<>>) ELSE outq
          /\ procs' = IF launch
                      THEN procs \o [i \in 1..conv.num_workers |-> NewWorker(q, q)]
                      ELSE procs
          /\ conv' = [cv EXCEPT !._task_counter = NextTaskId(@)]
    /\ caller' = [caller EXCEPT ![c].pc = "put"]
    /\ UNCHANGED <<dirs, tasklog, outlog>>

\* Mutant of Put: the item goes on the queue twice.
PutTwice(q, item) == Append(Append(q, item), item)

\* Queue.put(item)
Put(q, item) == Append(q, item)

\* WorkerTask(task_id=self._task_counter, ...); self._input_queue.put(task)
SubmitPut(c) ==
    /\ caller[c].pc = "put"
    /\ LET task == WorkerTask(conv._task_counter, caller[c].file_path,
                              caller[c].output_format)
           q == conv._input_queue
       IN IF q = NoQueue
          THEN /\ caller' = [caller EXCEPT ![c].pc = "idle",
                                ![c].task_id = task.task_id,
                                ![c].ret = [kind |-> "AttributeError",
                                            msg |-> <<"NoneType has no put">>,
                                            content |-> None]]
               /\ UNCHANGED <<inq, tasklog>>
          ELSE /\ inq' = [inq EXCEPT ![q] = Put(@, task)]
               /\ tasklog' = Append(tasklog, [queue |-> q, task_id |-> task.task_id])
               /\ caller' = [caller EXCEPT ![c].pc = "get",
                                           ![c].task_id = task.task_id]
    /\ UNCHANGED <<conv, procs, outq, dirs, outlog>>

\* Mutant of FailureMessage: a fixed message, the worker's text dropped.
FailureMessageFixed(f, error) ==
    IF f = "html" THEN <<"HTML conversion failed">> ELSE <<"conversion failed">>

\* the message of the RuntimeError raised for a failed result
FailureMessage(f, error) ==
    (IF f = "html" THEN <<"HTML conversion failed: ">> ELSE <<"conversion failed: ">>)
        \o error

\* what the call hands back for the WorkerResult it read
Returned(f, result) ==
    IF ~result.success
    THEN [kind |-> "RuntimeError", msg |-> FailureMessage(f, result.error),
          content |-> None]
    ELSE [kind |-> IF f = "html" THEN "HTMLDirResult" ELSE "ConversionResult",
          msg |-> <<>>, content |-> result.content]

\* Mutant of GetBlocks: the read gives up on an empty queue.
GetTimesOut(q) == FALSE

\* self._output_queue.get() has no timeout: it blocks while the queue is
\* empty
GetBlocks(q) == outq[q] = <<>>

\* result = self._output_queue.get(), then the raise or the return
SubmitGet(c) ==
    /\ caller[c].pc = "get"
    /\ LET q == conv._output_queue IN
       IF q = NoQueue
       THEN /\ caller' = [caller EXCEPT ![c].pc = "idle",
                             ![c].ret = [kind |-> "AttributeError",
                                         msg |-> <<"NoneType has no get">>,
                                         content |-> None]]
            /\ UNCHANGED outq
       ELSE /\ ~GetBlocks(q)
            /\ IF outq[q] = <<>>
               THEN \* a read that does not block raises queue.Empty
                    /\ caller' = [caller EXCEPT ![c].pc = "idle",
                                     ![c].ret = [kind |-> "Empty", msg |-> <<>>,
                                                 content |-> None]]
                    /\ UNCHANGED outq
               ELSE /\ outq' = [outq EXCEPT ![q] = Tail(@)]
                    /\ caller' = [caller EXCEPT ![c].pc = "idle",
                                     ![c].got = Head(outq[q]),
                                     ![c].ret = Returned(caller[c].output_format,
                                                         Head(outq[q]))]
    /\ UNCHANGED <<conv, procs, inq, dirs, tasklog, outlog>>

\* ------------------------------------------------------- worker_main
\* Mutant of Dequeued: get() hands out the item and leaves it on the queue.
DequeuedPeek(q) == q

\* Queue.get(): the queue without the item that the call returns
Dequeued(q) == Tail(q)

\* task = input_queue.get(); the break on None
WorkerGet(p) ==
    /\ procs[p].pc = "get"
    /\ inq[procs[p].input_queue] # <<>>
    /\ LET task == Head(inq[procs[p].input_queue]) IN
       procs' = [procs EXCEPT ![p] =
                    IF task = NoneTask THEN Ended(@, "exited", "no")
                    ELSE [@ EXCEPT !.pc = "mkdtemp", !.task = task]]
    /\ inq' = [inq EXCEPT ![procs[p].input_queue] = Dequeued(@)]
    /\ UNCHANGED <<conv, outq, dirs, caller, tasklog, outlog>>

ScratchDir(p, task, files) == [owner |-> p, task_id |-> task.task_id, files |-> files]

\* temp_dir = Path(tempfile.mkdtemp()), before the try: the directory is
\* created, or mkdtemp raises and the exception leaves worker_main
WorkerMkdtemp(p) ==
    /\ procs[p].pc = "mkdtemp"
    /\ \/ /\ dirs' = dirs \cup {ScratchDir(p, procs[p].task, {})}
          /\ procs' = [procs EXCEPT ![p].pc = "try"]
       \/ /\ procs' = [procs EXCEPT ![p] = Crashed(@, "mkdtemp")]
          /\ UNCHANGED dirs
    /\ UNCHANGED <<conv, inq, outq, caller, tasklog, outlog>>

\* Mutant of TaskPuts: the worker holds the outcome back.
TaskPutsDeferred(task) == <<>>

\* everything the task's try/except puts on the output queue
TaskPuts(task) ==
    LET o == Dispatch(task) IN
    TryPuts(task) \o (IF o.exc # None THEN ExceptPuts(task, o.exc) ELSE <<>>)

\* the try block and the except block: the conversion writes into the
\* scratch directory and the result is put on the output queue
WorkerTry(p) ==
    /\ procs[p].pc = "try"
    /\ LET task == procs[p].task
           o == Dispatch(task)
           puts == TaskPuts(task)
       IN /\ dirs' = (dirs \ {ScratchDir(p, task, {})})
                        \cup {ScratchDir(p, task, o.files)}
          /\ outq' = [outq EXCEPT ![procs[p].output_queue] = @ \o puts]
          /\ outlog' = outlog \o [i \in DOMAIN puts |->
                                     [task_id |-> puts[i].task_id,
                                      success |-> puts[i].success]]
    /\ procs' = [procs EXCEPT ![p].pc = "finally"]
    /\ UNCHANGED <<conv, inq, caller, tasklog>>

\* the directories shutil.rmtree removes in the finally block
Removed(p, task) == {d \in dirs : d.owner = p /\ d.task_id = task.task_id}

\* finally: if temp_dir.exists(): shutil.rmtree(temp_dir) - the directory
\* is removed and the loop goes on, or rmtree raises and the exception
\* leaves worker_main with the directory still there
WorkerFinally(p) ==
    /\ procs[p].pc = "finally"
    /\ \/ /\ dirs' = dirs \ Removed(p, procs[p].task)
          /\ procs' = [procs EXCEPT ![p].pc = "get", ![p].task = NoneTask]
       \/ /\ procs' = [procs EXCEPT ![p] = Crashed(@, "rmtree")]
          /\ UNCHANGED dirs
    /\ UNCHANGED <<conv, inq, outq, caller, tasklog, outlog>>

\* ------------------------------------------- lifecycle, launch failure
\* The converter after a _start_workers in which Process.start() raised when
\* k processes were launched: the queues are the new ones, the k handles
\* are in the list, the started flag was never set.
PartlyStarted(cv, q, first, k) ==
    [cv EXCEPT !._input_queue = q, !._output_queue = q,
               !._workers = @ \o [i \in 1..k |-> first + i - 1]]

ProcessStartError == [kind |-> "OSError", msg |-> <<"Process.start">>, content |-> None]

\* _start_workers with Process.start() raising after k launches, as
\* next-state relation on conv, procs, inq, outq
_start_workers_raises(k) ==
    LET q == NewQueue(inq) IN
    /\ ~StartIsNoop(conv)
    /\ k < conv.num_workers
    /\ inq' = Append(inq, <<>>)
    /\ outq' = Append(outq, <<>>)
    /\ procs' = procs \o [i \in 1..k |-> NewWorker(q, q)]
    /\ conv' = PartlyStarted(conv, q, Len(procs) + 1, k)

\* an explicit call of _start_workers that ends with the exception of
\* Process.start()
StartWorkersRaises(c) ==
    /\ caller[c].pc = "idle"
    /\ Len(inq) < MaxStarts
    /\ \E k \in 0..MaxWorkers : _start_workers_raises(k)
    /\ caller' = [caller EXCEPT ![c] = [Fresh(c) EXCEPT !.ret = ProcessStartError]]
    /\ UNCHANGED <<dirs, tasklog, outlog>>

\* _convert_via_worker / _convert_html_via_worker whose automatic start ends
\* with the exception of Process.start(): the call raises before the counter
\* is touched
SubmitStartRaises(c) ==
    /\ caller[c].pc = "submit"
    /\ _use_worker(conv)
    /\ \E k \in 0..MaxWorkers : _start_workers_raises(k)
    /\ caller' = [caller EXCEPT ![c].pc = "idle", ![c].ret = ProcessStartError]
    /\ UNCHANGED <<dirs, tasklog, outlog>>

\* Mutant of EnterStarts: __enter__ leaves the start to the first submit.
EnterStartsNever(cv) == FALSE

\* whether __enter__ calls _start_workers
EnterStarts(cv) ==
    cv.num_workers # NumWorkersNone /\ cv.num_workers # 0 /\ cv.num_workers > 0

\* with converter: __enter__ starts the pool if a positive worker count was
\* configured and the body begins, or Process.start() raises in __enter__
\* and the with statement ends before its body
Enter(c) ==
    /\ caller[c].pc = "idle"
    /\ caller[c].ctx = "out"
    /\ (EnterStarts(conv) /\ ~StartIsNoop(conv)) => Len(inq) < MaxStarts
    /\ \/ /\ IF EnterStarts(conv) THEN _start_workers
                                  ELSE UNCHANGED <<conv, procs, inq, outq>>
          /\ caller' = [caller EXCEPT ![c] =
                          [NewCaller EXCEPT !.ctx = "body",
                                            !.ret = ReturnedNone("__enter__")]]
       \/ /\ EnterStarts(conv)
          /\ \E k \in 0..MaxWorkers : _start_workers_raises(k)
          /\ caller' = [caller EXCEPT ![c] = [NewCaller EXCEPT !.ret = ProcessStartError]]
    /\ UNCHANGED <<dirs, tasklog, outlog>>

\* the exceptions that may leave the body of a with statement, "none" for a
\* body that ends normally
BodyExceptions == {"none", "BodyError"}

\* the body of the with statement ends, normally or by exception e, and
\* __exit__ calls _shutdown_workers
Exit(c, e) ==
    /\ caller[c].pc = "idle"
    /\ caller[c].ctx = "body"
    /\ _shutdown_workers_begin(c, [NewCaller EXCEPT !.ctx = "exit", !.exc = e])

\* converter._input_queue = None on a started pool, from outside the class
InputQueueLost(c) ==
    /\ caller[c].pc = "idle"
    /\ conv._worker_started
    /\ conv._input_queue # NoQueue
    /\ conv' = [conv EXCEPT !._input_queue = NoQueue]
    /\ caller' = [caller EXCEPT ![c] =
                    [Fresh(c) EXCEPT !.ret = ReturnedNone("_input_queue = None")]]
    /\ UNCHANGED <<procs, inq, outq, dirs, tasklog, outlog>>

\* The calls made in the lifecycle specification: one that succeeds, one
\* that fails in the worker, one that is rejected.
LifeRequests ==
    {<<"doc.hwp", "txt">>, <<"corrupt.hwp", "markdown">>, <<"missing.hwp", "txt">>}

\* a conversion call on a converter in worker mode, or a rejected call
LifeCall(c, p, f) ==
    /\ _use_worker(conv) \/ ValidationError(p, f) # "ok"
    /\ conv._task_counter < MaxLifeTasks
    /\ Call(c, p, f)

\* ------------------------------------- HWPConverter: per-call strategy
\* The hwp5html command: the toolkit run as a process of its own.
Hwp5Html(p) ==
    LET t == Hwp5Transform(p) IN
    [returncode |-> IF t.raises = None THEN 0 ELSE 1,
     stderr |-> IF t.raises = None THEN <<>> ELSE t.raises,
     files |-> t.files]

Raised(kind, msg) == [kind |-> kind, msg |-> msg, content |-> None]

\* "RelaxNG" in stderr
Mentions(stderr, word) == \E i \in DOMAIN stderr : stderr[i] = word

\* to_html below "subprocess mode"
to_html(p) ==
    LET r == Hwp5Html(p) IN
    IF r.returncode # 0
    THEN Raised("RuntimeError", <<"HTML conversion failed: ", p, "\n">> \o r.stderr)
    ELSE IF "index.xhtml" \notin r.files
    THEN Raised("RuntimeError", <<"HTML conversion failed: no result file - ", p>>)
    ELSE [kind |-> "HTMLDirResult", msg |-> <<>>, content |-> Xhtml(p)]

\* to_text below "subprocess mode"
to_text(p) ==
    LET h == to_html(p) IN
    IF h.kind # "HTMLDirResult" THEN h
    ELSE [kind |-> "ConversionResult", msg |-> <<>>,
          content |-> to_text_step2(h.content)]

\* to_markdown below "subprocess mode"
to_markdown(p) ==
    LET h == to_html(p) IN
    IF h.kind # "HTMLDirResult" THEN h
    ELSE [kind |-> "ConversionResult", msg |-> <<>>,
          content |-> to_markdown_step2(h.content)]

\* the message of to_odt for a stderr that mentions RelaxNG or
\* ValidationFailed
RelaxNGMessage(p, stderr) ==
    <<"ODT conversion failed (RelaxNG validation error): ", p, "\n",
      "the formatting is too complex for ODT. ", "HTML or Markdown is recommended.">>

\* to_odt below "subprocess mode"
to_odt(p) ==
    LET r == Hwp5Odt(p) IN
    IF r.returncode # 0
    THEN IF Mentions(r.stderr, "RelaxNG") \/ Mentions(r.stderr, "ValidationFailed")
         THEN Raised("RuntimeError", RelaxNGMessage(p, r.stderr))
         ELSE Raised("RuntimeError", <<"ODT conversion failed: ", p, "\n">> \o r.stderr)
    ELSE IF "out.odt" \notin r.files
    THEN Raised("RuntimeError", <<"ODT conversion failed: no result file - ", p>>)
    ELSE [kind |-> "ConversionResult", msg |-> <<>>, content |-> <<"odt", p>>]

\* the to_* method of the format, in subprocess mode
PerCallReturned(p, f) ==
    CASE f = "html" -> to_html(p)
      [] f = "txt" -> to_text(p)
      [] f = "markdown" -> to_markdown(p)
      [] f = "odt" -> to_odt(p)

\* a to_* method of a converter that is not in worker mode: the conversion
\* runs in processes of its own, in a scratch directory that is created and
\* removed within the call
PerCall(c) ==
    /\ caller[c].pc = "submit"
    /\ ~_use_worker(conv)
    /\ caller' = [caller EXCEPT ![c].pc = "idle",
                     ![c].ret = PerCallReturned(caller[c].file_path,
                                                caller[c].output_format)]
    /\ UNCHANGED <<conv, procs, inq, outq, dirs, tasklog, outlog>>

\* The process that calls the converter, as owner of a scratch directory
\* (the worker processes are numbered from 1).
CallingProcess == 0

\* temp_dir = Path(tempfile.mkdtemp()) in to_html / to_odt: the directory
\* of number n, not yet written into
PerCallDir(n, files) == [owner |-> CallingProcess, task_id |-> n, files |-> files]

\* tempfile.mkdtemp() returns a name that no existing directory has
FreshDirNumber ==
    CHOOSE n \in 1..(Cardinality(dirs) + 1) :
        \A d \in dirs : d.owner = CallingProcess => d.task_id # n

\* the command to_html / to_odt runs for the format: to_text and
\* to_markdown call to_html
PerCallCommand(p, f) == IF f = "odt" THEN Hwp5Odt(p) ELSE Hwp5Html(p)

\* to_html / to_odt in subprocess mode, up to the try: mkdtemp creates the
\* scratch directory, or raises and the call ends with its exception
PerCallMkdtemp(c) ==
    /\ caller[c].pc = "submit"
    /\ ~_use_worker(conv)
    /\ \/ /\ dirs' = dirs \cup {PerCallDir(FreshDirNumber, {})}
          /\ caller' = [caller EXCEPT ![c].pc = "run", ![c].temp_dir = FreshDirNumber]
       \/ /\ UNCHANGED dirs
          /\ caller' = [caller EXCEPT ![c].pc = "idle",
                           ![c].ret = Raised("OSError", <<"mkdtemp">>)]
    /\ UNCHANGED <<conv, procs, inq, outq, tasklog, outlog>>

\* subprocess.run(command): the command writes its files below temp_dir
PerCallRun(c) ==
    /\ caller[c].pc = "run"
    /\ LET r == PerCallCommand(caller[c].file_path, caller[c].output_format) IN
       dirs' = (dirs \ {PerCallDir(caller[c].temp_dir, {})})
                  \cup {PerCallDir(caller[c].temp_dir, r.files)}
    /\ caller' = [caller EXCEPT ![c].pc = "cleanup"]
    /\ UNCHANGED <<conv, procs, inq, outq, tasklog, outlog>>

\* Mutant of PerCallRemoved: the directory is removed at the end of the
\* try block, which a raise does not reach.
PerCallRemovedAtEndOfTry(c, outcome) ==
    IF outcome.kind = "RuntimeError" THEN {}
    ELSE {d \in dirs : d.owner = CallingProcess /\ d.task_id = caller[c].temp_dir}

\* the directories shutil.rmtree removes in the finally block of to_html /
\* to_odt, whatever the outcome of the try block
PerCallRemoved(c, outcome) ==
    {d \in dirs : d.owner = CallingProcess /\ d.task_id = caller[c].temp_dir}

\* the rest of to_html / to_odt: the tests of the exit code and of the
\* output file, the return or the raise, and the finally block on the way
\* out - rmtree removes the directory, or raises and its exception leaves
\* the call with the directory still there; to_text / to_markdown then
\* post-process what to_html returned
PerCallFinally(c) ==
    /\ caller[c].pc = "cleanup"
    /\ LET outcome == PerCallReturned(caller[c].file_path, caller[c].output_format) IN
       \/ /\ dirs' = dirs \ PerCallRemoved(c, outcome)
          /\ caller' = [caller EXCEPT ![c].pc = "idle", ![c].ret = outcome]
       \/ /\ UNCHANGED dirs
          /\ caller' = [caller EXCEPT ![c].pc = "idle",
                           ![c].ret = Raised("OSError", <<"rmtree">>)]
    /\ UNCHANGED <<conv, procs, inq, outq, tasklog, outlog>>

\* The calls made in the specification of the scratch directory of the
\* per-call strategy: for each of the two commands a document it converts,
\* one that makes it exit non-zero and one for which it writes no output,
\* and a text conversion by way of to_html.
ScratchRequests ==
    {<<"doc.hwp", "html">>, <<"corrupt.hwp", "html">>, <<"empty.hwp", "html">>,
     <<"doc.hwp", "odt">>, <<"corrupt.hwp", "odt">>, <<"empty.hwp", "odt">>,
     <<"doc.hwp", "txt">>}

\* a conversion call while fewer than MaxTasks directories are left over
ScratchCall(c, p, f) ==
    /\ Cardinality(dirs) < MaxTasks
    /\ Call(c, p, f)

\* The calls made in the specification of the two strategies: text and
\* Markdown of a document, ODT of a document that fails the RelaxNG
\* validation of hwp5odt, of one that hwp5odt cannot read and of one that
\* it converts.
ModeRequests ==
    {<<"doc.hwp", "txt">>, <<"doc.hwp", "markdown">>, <<"complex.hwp", "odt">>,
     <<"corrupt.hwp", "odt">>, <<"doc.hwp", "odt">>}

\* a conversion call on a converter of either mode
ModeCall(c, p, f) ==
    /\ conv._task_counter < MaxLifeTasks
    /\ Call(c, p, f)

\* The tasks handed to the pool without the tests of convert(): one of an
\* unsupported format, one that succeeds, one that fails in the toolkit.
DirectRequests ==
    {<<"doc.hwp", "pdf">>, <<"doc.hwp", "txt">>, <<"corrupt.hwp", "html">>}

\* a thread calls _convert_via_worker(file_path, output_format) itself: the
\* format test of convert and _validate_file are not passed
DirectCall(c, p, f) ==
    /\ caller[c].pc = "idle"
    /\ conv._task_counter < MaxTasks
    /\ caller' = [caller EXCEPT ![c] =
                    [Fresh(c) EXCEPT !.pc = "submit", !.file_path = p,
                                     !.output_format = f]]
    /\ UNCHANGED <<conv, procs, inq, outq, dirs, tasklog, outlog>>

\* The call of the two threads whose tasks are outstanding together.
OrderRequests == {<<"doc.hwp", "txt">>}

\* ------------------------------------------------------ specification
Next ==
    \/ \E c \in DOMAIN caller : \E r \in Requests : Call(c, r[1], r[2])
    \/ \E c \in DOMAIN caller : SubmitStart(c)
    \/ \E c \in DOMAIN caller : SubmitPut(c)
    \/ \E c \in DOMAIN caller : SubmitGet(c)
    \/ \E c \in DOMAIN caller : StartWorkers(c)
    \/ \E c \in DOMAIN caller : ShutdownBegin(c)
    \/ \E c \in DOMAIN caller : Join(c)
    \/ \E c \in DOMAIN caller : ShutdownEnd(c)
    \/ \E p \in DOMAIN procs : WorkerGet(p)
    \/ \E p \in DOMAIN procs : WorkerMkdtemp(p)
    \/ \E p \in DOMAIN procs : WorkerTry(p)
    \/ \E p \in DOMAIN procs : WorkerFinally(p)

Spec == Init /\ [][Next]_vars

\* two threads that only convert, on the pool the first submit starts
NextConc ==
    \/ \E c \in DOMAIN caller : \E r \in Requests : Call(c, r[1], r[2])
    \/ \E c \in DOMAIN caller : SubmitStart(c)
    \/ \E c \in DOMAIN caller : SubmitPut(c)
    \/ \E c \in DOMAIN caller : SubmitGet(c)
    \/ \E p \in DOMAIN procs : WorkerGet(p)
    \/ \E p \in DOMAIN procs : WorkerMkdtemp(p)
    \/ \E p \in DOMAIN procs : WorkerTry(p)
    \/ \E p \in DOMAIN procs : WorkerFinally(p)

SpecConc == InitConc /\ [][NextConc]_vars

\* one thread that starts, shuts down, enters and leaves with blocks and
\* converts, on a converter of any num_workers, with Process.start() that
\* may raise
NextLife ==
    \/ \E c \in DOMAIN caller : \E r \in LifeRequests : LifeCall(c, r[1], r[2])
    \/ \E c \in DOMAIN caller : SubmitStart(c)
    \/ \E c \in DOMAIN caller : SubmitStartRaises(c)
    \/ \E c \in DOMAIN caller : SubmitPut(c)
    \/ \E c \in DOMAIN caller : SubmitGet(c)
    \/ \E c \in DOMAIN caller : StartWorkers(c)
    \/ \E c \in DOMAIN caller : StartWorkersRaises(c)
    \/ \E c \in DOMAIN caller : ShutdownBegin(c)
    \/ \E c \in DOMAIN caller : Join(c)
    \/ \E c \in DOMAIN caller : ShutdownEnd(c)
    \/ \E c \in DOMAIN caller : Enter(c)
    \/ \E c \in DOMAIN caller : \E e \in BodyExceptions : Exit(c, e)
    \/ \E c \in DOMAIN caller : InputQueueLost(c)
    \/ \E p \in DOMAIN procs : WorkerGet(p)
    \/ \E p \in DOMAIN procs : WorkerMkdtemp(p)
    \/ \E p \in DOMAIN procs : WorkerTry(p)
    \/ \E p \in DOMAIN procs : WorkerFinally(p)

SpecLife == InitLife /\ [][NextLife]_vars

\* the same thread using the converter through its methods only: starts,
\* shutdowns, with blocks and conversions, with Process.start() that may
\* raise
NextPool ==
    \/ \E c \in DOMAIN caller : \E r \in LifeRequests : LifeCall(c, r[1], r[2])
    \/ \E c \in DOMAIN caller : SubmitStart(c)
    \/ \E c \in DOMAIN caller : SubmitStartRaises(c)
    \/ \E c \in DOMAIN caller : SubmitPut(c)
    \/ \E c \in DOMAIN caller : SubmitGet(c)
    \/ \E c \in DOMAIN caller : StartWorkers(c)
    \/ \E c \in DOMAIN caller : StartWorkersRaises(c)
    \/ \E c \in DOMAIN caller : ShutdownBegin(c)
    \/ \E c \in DOMAIN caller : Join(c)
    \/ \E c \in DOMAIN caller : ShutdownEnd(c)
    \/ \E c \in DOMAIN caller : Enter(c)
    \/ \E c \in DOMAIN caller : \E e \in BodyExceptions : Exit(c, e)
    \/ \E p \in DOMAIN procs : WorkerGet(p)
    \/ \E p \in DOMAIN procs : WorkerMkdtemp(p)
    \/ \E p \in DOMAIN procs : WorkerTry(p)
    \/ \E p \in DOMAIN procs : WorkerFinally(p)

SpecPool == InitLife /\ [][NextPool]_vars

\* the same thread without with blocks: explicit starts and shutdowns,
\* conversions, Process.start() that may raise, an input queue that is lost
NextShut ==
    \/ \E c \in DOMAIN caller : \E r \in LifeRequests : LifeCall(c, r[1], r[2])
    \/ \E c \in DOMAIN caller : SubmitStart(c)
    \/ \E c \in DOMAIN caller : SubmitStartRaises(c)
    \/ \E c \in DOMAIN caller : SubmitPut(c)
    \/ \E c \in DOMAIN caller : SubmitGet(c)
    \/ \E c \in DOMAIN caller : StartWorkers(c)
    \/ \E c \in DOMAIN caller : StartWorkersRaises(c)
    \/ \E c \in DOMAIN caller : ShutdownBegin(c)
    \/ \E c \in DOMAIN caller : Join(c)
    \/ \E c \in DOMAIN caller : ShutdownEnd(c)
    \/ \E c \in DOMAIN caller : InputQueueLost(c)
    \/ \E p \in DOMAIN procs : WorkerGet(p)
    \/ \E p \in DOMAIN procs : WorkerMkdtemp(p)
    \/ \E p \in DOMAIN procs : WorkerTry(p)
    \/ \E p \in DOMAIN procs : WorkerFinally(p)

\* one thread that converts with a converter of any num_workers, inside
\* with blocks and outside of them
NextModes ==
    \/ \E c \in DOMAIN caller : \E r \in ModeRequests : ModeCall(c, r[1], r[2])
    \/ \E c \in DOMAIN caller : PerCall(c)
    \/ \E c \in DOMAIN caller : SubmitStart(c)
    \/ \E c \in DOMAIN caller : SubmitStartRaises(c)
    \/ \E c \in DOMAIN caller : SubmitPut(c)
    \/ \E c \in DOMAIN caller : SubmitGet(c)
    \/ \E c \in DOMAIN caller : Enter(c)
    \/ \E c \in DOMAIN caller : \E e \in BodyExceptions : Exit(c, e)
    \/ \E c \in DOMAIN caller : Join(c)
    \/ \E c \in DOMAIN caller : ShutdownEnd(c)
    \/ \E p \in DOMAIN procs : WorkerGet(p)
    \/ \E p \in DOMAIN procs : WorkerMkdtemp(p)
    \/ \E p \in DOMAIN procs : WorkerTry(p)
    \/ \E p \in DOMAIN procs : WorkerFinally(p)

SpecModes == InitLife /\ [][NextModes]_vars

\* two threads whose tasks are on the pool at the same time
NextOrder ==
    \/ \E c \in DOMAIN caller : \E r \in OrderRequests : Call(c, r[1], r[2])
    \/ \E c \in DOMAIN caller : SubmitStart(c)
    \/ \E c \in DOMAIN caller : SubmitPut(c)
    \/ \E c \in DOMAIN caller : SubmitGet(c)
    \/ \E p \in DOMAIN procs : WorkerGet(p)
    \/ \E p \in DOMAIN procs : WorkerMkdtemp(p)
    \/ \E p \in DOMAIN procs : WorkerTry(p)
    \/ \E p \in DOMAIN procs : WorkerFinally(p)

SpecOrder == InitConc /\ [][NextOrder]_vars

\* one thread that hands tasks of any format to the pool
NextDirect ==
    \/ \E c \in DOMAIN caller : \E r \in DirectRequests : DirectCall(c, r[1], r[2])
    \/ \E c \in DOMAIN caller : SubmitStart(c)
    \/ \E c \in DOMAIN caller : SubmitPut(c)
    \/ \E c \in DOMAIN caller : SubmitGet(c)
    \/ \E p \in DOMAIN procs : WorkerGet(p)
    \/ \E p \in DOMAIN procs : WorkerMkdtemp(p)
    \/ \E p \in DOMAIN procs : WorkerTry(p)
    \/ \E p \in DOMAIN procs : WorkerFinally(p)

SpecDirect == Init /\ [][NextDirect]_vars

\* a converter without a positive worker count: num_workers None or 0
InitScratch == InitWith(1, {NumWorkersNone, 0})

\* one thread that converts in the per-call strategy, with mkdtemp and
\* rmtree that may raise
NextScratch ==
    \/ \E c \in DOMAIN caller : \E r \in ScratchRequests : ScratchCall(c, r[1], r[2])
    \/ \E c \in DOMAIN caller : PerCallMkdtemp(c)
    \/ \E c \in DOMAIN caller : PerCallRun(c)
    \/ \E c \in DOMAIN caller : PerCallFinally(c)

SpecScratch == InitScratch /\ [][NextScratch]_vars

\* one thread that calls convert() with every kind of path and every
\* format, on a converter without a positive worker count
NextValidate ==
    \/ \E c \in DOMAIN caller : \E p \in Paths : \E f \in Formats : ScratchCall(c, p, f)
    \/ \E c \in DOMAIN caller : PerCallMkdtemp(c)
    \/ \E c \in DOMAIN caller : PerCallRun(c)
    \/ \E c \in DOMAIN caller : PerCallFinally(c)

SpecValidate == InitScratch /\ [][NextValidate]_vars

\* ------------------------------------------------------- cli: convert
\* What may go wrong in one job besides the conversion itself: mkdtemp or
\* rmtree raising in the to_* method, the output that cannot be written.
CliFaults == {"none", "mkdtemp", "rmtree", "write"}

\* the name of the output: the stem with the extension of the format (md
\* for markdown), a directory for html
OutputName(p, f) ==
    IF f = "html" THEN <<p, "/">>
    ELSE <<p, IF f = "markdown" THEN ".md" ELSE f>>

\* The try block of convert_file: the exception that leaves it ("none" if
\* it returns), its message, the string returned and the outputs written.
CliTry(p, f, fault) ==
    IF f \notin {"markdown", "html", "txt", "odt"}
    THEN [exc |-> "none", msg |-> <<>>, writes |-> {},
          status |-> <<"[Error] ", p, ": unsupported format -> ", f>>]
    ELSE IF _validate_file(p) # "ok"
    THEN [exc |-> _validate_file(p), msg |-> ValidationMessage(p, f),
          writes |-> {}, status |-> <<>>]
    ELSE IF fault \in {"mkdtemp", "rmtree"}
    THEN [exc |-> "OSError", msg |-> <<fault>>, writes |-> {}, status |-> <<>>]
    ELSE IF PerCallReturned(p, f).kind = "RuntimeError"
    THEN [exc |-> "RuntimeError", msg |-> PerCallReturned(p, f).msg,
          writes |-> {}, status |-> <<>>]
    ELSE IF fault = "write"
    THEN [exc |-> "OSError", msg |-> <<"cannot write ">> \o OutputName(p, f),
          writes |-> {}, status |-> <<>>]
    ELSE [exc |-> "none", msg |-> <<>>, writes |-> {OutputName(p, f)},
          status |-> <<"[Success] ", p, " -> ">> \o OutputName(p, f)]

\* Mutant of Caught: the handler is written for the error of the
\* conversion only.
CaughtRuntimeErrorOnly(exc) == exc = "RuntimeError"

\* except Exception: ValueError, FileNotFoundError, RuntimeError and
\* OSError are all caught
Caught(exc) == exc \in {"ValueError", "FileNotFoundError", "RuntimeError", "OSError"}

\* convert_file: the string it returns, or the exception that leaves it
convert_file(p, f, fault) ==
    LET t == CliTry(p, f, fault) IN
    IF t.exc = "none"
    THEN [raised |-> "none", status |-> t.status, writes |-> t.writes]
    ELSE IF Caught(t.exc)
    THEN [raised |-> "none", status |-> <<"[Fail] ", p, ": ">> \o t.msg,
          writes |-> {}]
    ELSE [raised |-> t.exc, status |-> <<>>, writes |-> {}]

\* the values of --workers
CliWorkers == -1..MaxWorkers

\* The convert command after its options were read and the target files
\* collected: a set of at most MaxTasks paths (the list is deduplicated
\* and sorted), the format, the --workers value; no executor yet
\* (max_workers 0), no result, nothing written.
InitCli ==
    /\ conv = NewConverter(NumWorkersNone)
    /\ procs = <<>>
    /\ inq = <<>>
    /\ outq = <<>>
    /\ dirs = {}
    /\ caller \in {[c \in 1..1 |->
                      [pc |-> "collected", target_files |-> ts, format |-> f,
                       workers |-> w, max_workers |-> 0, results |-> <<>>,
                       written |-> {}]] :
                   ts \in {s \in SUBSET Paths : Cardinality(s) <= MaxTasks},
                   f \in Formats, w \in CliWorkers}
    /\ tasklog = <<>>
    /\ outlog = <<>>

\* if not target_files: return; if workers < 1: workers = 1;
\* ProcessPoolExecutor(max_workers=workers)
CliStart(c) ==
    /\ caller[c].pc = "collected"
    /\ caller' = [caller EXCEPT ![c] =
          IF @.target_files = {} THEN [@ EXCEPT !.pc = "done"]
          ELSE [@ EXCEPT !.pc = "pool",
                         !.max_workers = IF caller[c].workers < 1 THEN 1
                                         ELSE caller[c].workers]]
    /\ UNCHANGED <<conv, procs, inq, outq, dirs, tasklog, outlog>>

\* the files whose job has completed
Completed(cr) == {cr.results[i].file : i \in DOMAIN cr.results}

\* one job of the executor completes and future.result() hands its string
\* to the loop, or raises what left convert_file and ends the command
CliJob(c, p, fault) ==
    /\ caller[c].pc = "pool"
    /\ p \in caller[c].target_files \ Completed(caller[c])
    /\ LET r == convert_file(p, caller[c].format, fault) IN
       caller' = [caller EXCEPT ![c] =
          IF r.raised # "none" THEN [@ EXCEPT !.pc = "aborted"]
          ELSE [@ EXCEPT !.results = Append(@, [file |-> p, status |-> r.status]),
                         !.written = @ \cup r.writes]]
    /\ UNCHANGED <<conv, procs, inq, outq, dirs, tasklog, outlog>>

\* every future has completed: the with blocks end and the command returns
CliFinish(c) ==
    /\ caller[c].pc = "pool"
    /\ Completed(caller[c]) = caller[c].target_files
    /\ caller' = [caller EXCEPT ![c].pc = "done"]
    /\ UNCHANGED <<conv, procs, inq, outq, dirs, tasklog, outlog>>

NextCli ==
    \/ \E c \in DOMAIN caller : CliStart(c)
    \/ \E c \in DOMAIN caller : \E p \in Paths : \E fault \in CliFaults :
          CliJob(c, p, fault)
    \/ \E c \in DOMAIN caller : CliFinish(c)

SpecCli == InitCli /\ [][NextCli]_vars

\* The HTML bodies that are post-processed: every sequence of at most
\* MaxHtml pieces.
HtmlBodies == UNION {[1..k -> HtmlPieces] : k \in 0..MaxHtml}

\* The post-processing of the two strategies applied to one intermediate
\* HTML: the thread holds the HTML and the target format, and what each
\* strategy made of it (None before it ran).
InitPost ==
    /\ conv = NewConverter(NumWorkersNone)
    /\ procs = <<>>
    /\ inq = <<>>
    /\ outq = <<>>
    /\ dirs = {}
    /\ caller \in {[c \in 1..1 |-> [html |-> x, output_format |-> f,
                                    worker |-> None, percall |-> None]] :
                       x \in HtmlBodies, f \in {"txt", "markdown"}}
    /\ tasklog = <<>>
    /\ outlog = <<>>

\* worker_main, txt and markdown branches: content = _html_to_text(xhtml) /
\* content = _html_to_markdown(xhtml)
WorkerPostprocess(c) ==
    /\ caller[c].worker = None
    /\ caller' = [caller EXCEPT ![c].worker =
                    IF caller[c].output_format = "txt"
                    THEN _html_to_text(caller[c].html)
                    ELSE _html_to_markdown(caller[c].html)]
    /\ UNCHANGED <<conv, procs, inq, outq, dirs, tasklog, outlog>>

\* step 2 of to_text / to_markdown in subprocess mode
PerCallPostprocess(c) ==
    /\ caller[c].percall = None
    /\ caller' = [caller EXCEPT ![c].percall =
                    IF caller[c].output_format = "txt"
                    THEN to_text_step2(caller[c].html)
                    ELSE to_markdown_step2(caller[c].html)]
    /\ UNCHANGED <<conv, procs, inq, outq, dirs, tasklog, outlog>>

NextPost ==
    \/ \E c \in DOMAIN caller : WorkerPostprocess(c)
    \/ \E c \in DOMAIN caller : PerCallPostprocess(c)

SpecPost == InitPost /\ [][NextPost]_vars

\* a step of worker_main in process p
WorkerStep(p) ==
    /\ p \in DOMAIN procs
    /\ WorkerGet(p) \/ WorkerMkdtemp(p) \/ WorkerTry(p) \/ WorkerFinally(p)

\* a step of the calling thread inside _convert_via_worker /
\* _convert_html_via_worker
SubmitStep(c) == SubmitStart(c) \/ SubmitPut(c) \/ SubmitGet(c)

\* The tasks a test thread puts on the input queue of a worker it drives
\* itself: the three formats of the test on one document, and a document
\* the toolkit rejects.
FifoRequests ==
    {<<"doc.hwp", "html">>, <<"doc.hwp", "txt">>, <<"doc.hwp", "markdown">>,
     <<"corrupt.hwp", "html">>}

\* input_queue = Queue(); output_queue = Queue(); worker_main(input_queue,
\* output_queue) in one process, driven without a converter
InitFifo ==
    /\ conv = NewConverter(1)
    /\ procs = <<NewWorker(1, 1)>>
    /\ inq = <<<<>>>>
    /\ outq = <<<<>>>>
    /\ dirs = {}
    /\ caller = [c \in 1..1 |-> NewCaller]
    /\ tasklog = <<>>
    /\ outlog = <<>>

\* the stop sentinel, in the history of the puts
StopLogged == [queue |-> 1, task_id |-> NoneTask.task_id]

\* input_queue.put(WorkerTask(task_id, path, format)) by the test thread,
\* with task ids that count up
FifoPut(p, f) ==
    /\ Cardinality({k \in DOMAIN tasklog : tasklog[k] # StopLogged}) < MaxTasks
    /\ LET task == WorkerTask(Len(tasklog) + 1, p, f) IN
       /\ inq' = [inq EXCEPT ![1] = Put(@, task)]
       /\ tasklog' = Append(tasklog, [queue |-> 1, task_id |-> task.task_id])
    /\ UNCHANGED <<conv, procs, outq, dirs, caller, outlog>>

\* input_queue.put(None) by the test thread, once
FifoStop ==
    /\ \A k \in DOMAIN tasklog : tasklog[k] # StopLogged
    /\ inq' = [inq EXCEPT ![1] = Put(@, NoneTask)]
    /\ tasklog' = Append(tasklog, StopLogged)
    /\ UNCHANGED <<conv, procs, outq, dirs, caller, outlog>>

\* one worker that serves what a test thread puts on its input queue
NextFifo ==
    \/ \E r \in FifoRequests : FifoPut(r[1], r[2])
    \/ FifoStop
    \/ \E p \in DOMAIN procs : WorkerGet(p)
    \/ \E p \in DOMAIN procs : WorkerMkdtemp(p)
    \/ \E p \in DOMAIN procs : WorkerTry(p)
    \/ \E p \in DOMAIN procs : WorkerFinally(p)

SpecFifo == InitFifo /\ [][NextFifo]_vars

\* The calls whose return is followed up: to_html and to_odt of a document
\* that converts, to_html of one the toolkit rejects, to_odt of one for
\* which hwp5odt writes no file.
LiveRequests ==
    {<<"doc.hwp", "html">>, <<"corrupt.hwp", "html">>, <<"doc.hwp", "odt">>,
     <<"empty.hwp", "odt">>}

\* one thread that only converts
NextLive ==
    \/ \E c \in DOMAIN caller : \E r \in LiveRequests : Call(c, r[1], r[2])
    \/ \E c \in DOMAIN caller : SubmitStep(c)
    \/ \E p \in DOMAIN procs : WorkerStep(p)

\* Every worker process is scheduled: a process that can take a step of
\* worker_main takes one (get returns when the queue holds an item, every
\* conversion step terminates); and the calling thread goes on inside its
\* call.
SpecLive ==
    /\ Init
    /\ [][NextLive]_vars
    /\ \A p \in 1..MaxWorkers : WF_vars(WorkerStep(p))
    /\ WF_vars(\E c \in DOMAIN caller : SubmitStep(c))

\* The thread that runs _shutdown_workers goes on: join(timeout) returns
\* when the process has ended or the timeout has passed, terminate()
\* returns, and the four closing statements follow.
SpecShutFair ==
    /\ Init
    /\ [][NextShut]_vars
    /\ WF_vars(\E c \in DOMAIN caller : Join(c))
    /\ WF_vars(\E c \in DOMAIN caller : ShutdownEnd(c))

\* ============================================================ claims
\* number of results ever put that carry task_id id
Produced(id) == Cardinality({i \in DOMAIN outlog : outlog[i].task_id = id})

\* the task of log entry e still waits on its input queue
Waiting(e) == \E i \in DOMAIN inq[e.queue] : inq[e.queue][i].task_id = e.task_id

\* a worker has dequeued the task of log entry e and has not yet passed its
\* try/except
InHand(e) ==
    \E p \in DOMAIN procs :
        /\ procs[p].pc \in {"mkdtemp", "try"}
        /\ procs[p].input_queue = e.queue
        /\ procs[p].task.task_id = e.task_id

NoWorkerKilled == \A p \in DOMAIN procs : procs[p].pc \notin {"terminated", "reaped"}

\* C1 (stated as claimed; the code violates it): as long as no worker was
\* killed, every task put on the input queue gets exactly one WorkerResult
\* with its task_id on the output queue - never two, and not zero once a
\* worker has dequeued the task and is done with its try/except.
C1_ExactlyOneResult ==
    NoWorkerKilled =>
        \A k \in DOMAIN tasklog :
            /\ Produced(tasklog[k].task_id) <= 1
            /\ (~Waiting(tasklog[k]) /\ ~InHand(tasklog[k]))
                   => Produced(tasklog[k].task_id) = 1

\* C2: with one calling thread, the WorkerResult a call of
\* _convert_via_worker / _convert_html_via_worker reads carries the task_id
\* that this call allocated and pushed.
C2_OwnResult ==
    \A c \in DOMAIN caller :
        caller[c].got # NoResult => caller[c].got.task_id = caller[c].task_id

\* C2 witness: on a pool of two workers the second call has read its own
\* result, and the two tasks were served by different workers: one left the
\* scratch directory of task 1, the other still holds task 2.
C2_Witness ==
    /\ conv.num_workers = 2
    /\ caller[1].pc = "idle"
    /\ caller[1].task_id = 2
    /\ caller[1].got.task_id = 2
    /\ \E p1, p2 \in DOMAIN procs :
          /\ p1 # p2
          /\ \E d \in dirs : d.owner = p1 /\ d.task_id = 1
          /\ procs[p2].task.task_id = 2

\* C3 (stated as claimed; the code violates it): with two threads converting
\* on the same pool, each call returns the WorkerResult of the task it
\* pushed, never the result of the other thread's task.
C3_CorrelatedByTaskId ==
    \A c \in DOMAIN caller : \A d \in DOMAIN caller \ {c} :
        caller[c].got # NoResult =>
            /\ caller[c].got.task_id = caller[c].task_id
            /\ ~(caller[d].task_id # caller[c].task_id
                   /\ caller[c].got.task_id = caller[d].task_id)

\* C4 (stated as claimed; the code violates it): a worker that has put the
\* failure result of a task whose conversion failed goes back to waiting on
\* the input queue: its next step never ends the loop.
C4_FailedTaskKeepsLoop ==
    [][\A p \in DOMAIN procs :
          (procs[p].pc = "finally" /\ Dispatch(procs[p].task).exc # None)
              => procs'[p].pc \in {"finally", "get"}]_vars

\* worker w passes, in this step, a point of step 3a or 3b at which an
\* exception is raised: mkdtemp raising, or the dispatch of a failing task
RaisesInStep3(p) ==
    \/ procs[p].pc = "mkdtemp" /\ procs'[p].pc = "crashed"
    \/ procs[p].pc = "try" /\ procs'[p].pc # "try"
          /\ Dispatch(procs[p].task).exc # None

\* C5 (stated as claimed; the code violates it): the step in which creating
\* the scratch directory or the format dispatch raises for a dequeued task
\* puts a WorkerResult with that task_id, success=False and the exception's
\* message as error on the worker's output queue.
C5_Step3ExceptionReported ==
    [][\A p \in DOMAIN procs :
          RaisesInStep3(p) =>
              LET q == procs[p].output_queue IN
              /\ Len(outq'[q]) = Len(outq[q]) + 1
              /\ outq'[q][Len(outq'[q])].task_id = procs[p].task.task_id
              /\ ~outq'[q][Len(outq'[q])].success
              /\ outq'[q][Len(outq'[q])].error # None
              /\ procs[p].pc = "try" =>
                    outq'[q][Len(outq'[q])].error = Dispatch(procs[p].task).exc]_vars

\* The outcome of converting path p to format f when it is the only task
\* the pool ever gets.
AloneSucceeds(p, f) == p = "doc.hwp"
AloneContent(p, f) ==
    CASE f = "html" -> <<"xhtml", p, "link", "em">>
      [] f = "txt" -> <<"xhtml", p, "w", "w">>
      [] f = "markdown" -> <<"xhtml", p, "[w](u)", "*w*">>
      [] OTHER -> <<"odt", p>>

\* C6: the result a call reads has the success flag and the content its
\* task has when converted alone, whatever failing or succeeding tasks the
\* pool served before it and whichever worker served it.
C6_Isolation ==
    \A c \in DOMAIN caller :
        caller[c].got # NoResult =>
            /\ caller[c].got.success
                   = AloneSucceeds(caller[c].file_path, caller[c].output_format)
            /\ caller[c].got.success =>
                   caller[c].got.content
                       = AloneContent(caller[c].file_path, caller[c].output_format)

\* C6 witness: a pool of one worker served a failing task and then, with
\* the same worker, a task whose result is the success read by the caller.
C6_Witness ==
    /\ conv.num_workers = 1
    /\ Len(outlog) = 2
    /\ ~outlog[1].success
    /\ caller[1].got.task_id = 2
    /\ caller[1].got.success
    /\ caller[1].got.content # None

Owns(p) == {d \in dirs : d.owner = p}

\* C7 (stated as claimed; the code violates it): a worker that waits on the
\* input queue between tasks, or has left its loop, has no scratch directory
\* of an earlier task left.
C7_NoScratchLeft ==
    \A p \in DOMAIN procs :
        procs[p].pc \in {"get", "exited", "crashed", "terminated", "reaped"}
            => Owns(p) = {}

\* What the finally block does give: a directory is left only by a worker
\* that died because removing it raised, or that shutdown terminated in the
\* middle of a task.
NoScratchLeftUnlessRmtreeRaised ==
    \A p \in DOMAIN procs :
        (procs[p].pc \in {"get", "exited", "crashed", "terminated", "reaped"}
            /\ procs[p].died \notin {"rmtree", "terminate"}) => Owns(p) = {}

\* whether sequence s occurs in sequence m as a contiguous run
Contains(m, s) ==
    \E i \in 1..(Len(m) - Len(s) + 1) : SubSeq(m, i, i + Len(s) - 1) = s

PoolOf(cv) == <<cv._workers, cv._input_queue, cv._output_queue, cv._worker_started>>

\* C8: the step in which a call reads a WorkerResult with success=False
\* raises a RuntimeError whose message contains the result's error text,
\* hands back no content, and leaves the pool started, its handle list, its
\* channels and the worker processes as they were.
C8_FailureRaises ==
    [][\A c \in DOMAIN caller :
          (caller[c].pc = "get" /\ caller'[c].pc = "idle"
              /\ caller'[c].got # NoResult /\ ~caller'[c].got.success)
          => /\ caller'[c].ret.kind = "RuntimeError"
             /\ Contains(caller'[c].ret.msg, caller'[c].got.error)
             /\ caller'[c].ret.content = None
             /\ conv'._worker_started
             /\ PoolOf(conv') = PoolOf(conv)
             /\ procs' = procs
             /\ inq' = inq]_vars

\* C8 witness: a call has ended with a RuntimeError for a failed result.
C8_Witness ==
    /\ caller[1].pc = "idle"
    /\ caller[1].ret.kind = "RuntimeError"
    /\ caller[1].got # NoResult
    /\ ~caller[1].got.success
    /\ caller[1].got.error # None
    /\ conv._worker_started

Invalid(p, f) == IsDir(p) \/ ~Exists(p) \/ f \notin SUPPORTED_FORMATS

\* C9: the step in which convert is called with a nonexistent path, a
\* directory or an unsupported format ends the call with ValueError or
\* FileNotFoundError and touches neither the task counter, nor the started
\* flag, nor the handle list, nor a queue, nor a process.
C9_RejectedBeforePool ==
    [][\A c \in DOMAIN caller :
          (caller[c].pc = "idle" /\ caller'[c] # caller[c]
              /\ caller'[c].file_path # ""
              /\ Invalid(caller'[c].file_path, caller'[c].output_format))
          => /\ caller'[c].pc = "idle"
             /\ caller'[c].ret.kind \in {"ValueError", "FileNotFoundError"}
             /\ conv' = conv
             /\ procs' = procs
             /\ inq' = inq
             /\ outq' = outq
             /\ tasklog' = tasklog]_vars

\* C9 witness: a call for a nonexistent path was rejected on a pool that
\* was never started, and the pool is still unstarted.
C9_Witness ==
    /\ caller[1].pc = "idle"
    /\ caller[1].file_path = "missing.hwp"
    /\ caller[1].ret.kind = "FileNotFoundError"
    /\ ~conv._worker_started
    /\ conv._task_counter = 0
    /\ inq = <<>>
    /\ procs = <<>>

\* C10: the task_ids one converter puts on its input queues are strictly
\* increasing in the order of the puts, across shutdowns and restarts.
C10_TaskIdsIncrease ==
    \A i, k \in DOMAIN tasklog :
        i < k => tasklog[i].task_id < tasklog[k].task_id

\* C10 witness: two tasks were put on the queues of two different starts of
\* the pool, the first of them having failed.
C10_Witness ==
    /\ Len(tasklog) = 2
    /\ tasklog[1].queue # tasklog[2].queue
    /\ Len(outlog) >= 1
    /\ ~outlog[1].success

\* the worker processes of the handle list that are running
LiveWorkers(cv, ps) == {i \in DOMAIN cv._workers : Alive(ps[cv._workers[i]])}

\* C11: a call of _start_workers on a started pool changes nothing: handle
\* list, channels, started flag and task counter, the processes and the
\* queues are as they were, and so is the number of live workers.
C11_StartIdempotent ==
    [][\A c \in DOMAIN caller :
          (StartWorkers(c) /\ conv._worker_started)
          => /\ conv' = conv
             /\ procs' = procs
             /\ inq' = inq
             /\ outq' = outq
             /\ Cardinality(LiveWorkers(conv', procs'))
                    = Cardinality(LiveWorkers(conv, procs))]_vars

\* C11 witness: __enter__ started a pool of two workers and _start_workers
\* was then called in the body: there is still one pair of queues and two
\* processes, both running.
C11_Witness ==
    /\ caller[1].ctx = "body"
    /\ caller[1].ret = ReturnedNone("_start_workers")
    /\ conv._worker_started
    /\ conv.num_workers = 2
    /\ Len(inq) = 1
    /\ Len(procs) = 2
    /\ Cardinality(LiveWorkers(conv, procs)) = 2

\* the process numbers launched by the step
Launched == (DOMAIN procs') \ (DOMAIN procs)

\* C12: a call of _start_workers that returns, on an unstarted pool with
\* num_workers = n > 0, creates one input and one output queue and launches
\* exactly n processes, all bound to that pair, appends their handles and
\* sets started; with num_workers None or <= 0 it launches nothing and the
\* pool stays unstarted.
C12_StartLaunchesN ==
    [][\A c \in DOMAIN caller :
          (StartWorkers(c) /\ ~conv._worker_started)
          => IF conv.num_workers # NumWorkersNone /\ conv.num_workers > 0
             THEN /\ Len(inq') = Len(inq) + 1
                  /\ Len(outq') = Len(outq) + 1
                  /\ conv'._input_queue = Len(inq')
                  /\ conv'._output_queue = Len(outq')
                  /\ Cardinality(Launched) = conv.num_workers
                  /\ \A p \in Launched :
                        /\ Alive(procs'[p])
                        /\ procs'[p].input_queue = conv'._input_queue
                        /\ procs'[p].output_queue = conv'._output_queue
                        /\ \E i \in DOMAIN conv'._workers : conv'._workers[i] = p
                  /\ Len(conv'._workers) = Len(conv._workers) + conv.num_workers
                  /\ conv'._worker_started
             ELSE /\ conv' = conv
                  /\ procs' = procs
                  /\ inq' = inq
                  /\ outq' = outq
                  /\ ~conv'._worker_started]_vars

\* C12 witness: _start_workers has returned on a pool of two workers that
\* was unstarted: two processes wait on the one input queue.
C12_Witness ==
    /\ caller[1].ctx = "out"
    /\ caller[1].ret = ReturnedNone("_start_workers")
    /\ conv.num_workers = 2
    /\ conv._worker_started
    /\ Len(inq) = 1
    /\ Len(procs) = 2
    /\ \A p \in DOMAIN procs : procs[p].pc = "get" /\ procs[p].input_queue = 1

\* the pool as the constructor or a completed shutdown leaves it
NeverStartedOrShutDown(cv) ==
    /\ ~cv._worker_started
    /\ cv._workers = <<>>
    /\ cv._input_queue = NoQueue
    /\ cv._output_queue = NoQueue

\* C13: a call of _shutdown_workers on a pool that was never started, or is
\* already shut down, returns at once without raising, puts no stop signal
\* on any queue, touches no process, and leaves the pool unstarted, the
\* handle list empty and the task counter as it was.
C13_ShutdownUnstartedNoop ==
    [][\A c \in DOMAIN caller :
          (ShutdownBegin(c) /\ NeverStartedOrShutDown(conv))
          => /\ caller'[c].pc = "idle"
             /\ caller'[c].ret = ReturnedNone("_shutdown_workers")
             /\ inq' = inq
             /\ outq' = outq
             /\ procs' = procs
             /\ ~conv'._worker_started
             /\ conv'._workers = <<>>
             /\ conv'._task_counter = conv._task_counter]_vars

\* C13 witness: _shutdown_workers has returned on a converter with one
\* worker configured for which no queue and no process was ever created.
C13_Witness ==
    /\ caller[1].ret = ReturnedNone("_shutdown_workers")
    /\ caller[1].pc = "idle"
    /\ conv.num_workers = 1
    /\ NeverStartedOrShutDown(conv)
    /\ inq = <<>>
    /\ procs = <<>>

\* the step in which a call of _shutdown_workers (by __exit__ or not) on a
\* started pool returns
ShutdownReturns(c) == caller[c].pc = "join" /\ caller'[c].pc = "idle"

\* C14: the step in which _shutdown_workers returns on a started pool
\* leaves the handle list empty, both channels None and started=False,
\* whether the workers exited on the stop signal or were terminated.
C14_ShutdownClears ==
    [][\A c \in DOMAIN caller :
          ShutdownReturns(c)
          => /\ conv._worker_started
             /\ conv'._workers = <<>>
             /\ conv'._input_queue = NoQueue
             /\ conv'._output_queue = NoQueue
             /\ ~conv'._worker_started]_vars

\* C14 witness: _shutdown_workers has returned on a pool of two workers of
\* which one was terminated in the middle of a task.
C14_Witness ==
    /\ caller[1].pc = "idle"
    /\ caller[1].ret = ReturnedNone("_shutdown_workers")
    /\ conv.num_workers = 2
    /\ conv._workers = <<>>
    /\ ~conv._worker_started
    /\ Len(procs) = 2
    /\ \E p \in DOMAIN procs : procs[p].died = "terminate"

\* the stop signals waiting on input queue q
Sentinels(q) == {i \in DOMAIN inq[q] : inq[q][i] = NoneTask}

\* the pool holds exactly its N workers and its input channel is intact
PoolIntact(cv) ==
    /\ cv._worker_started
    /\ cv._input_queue # NoQueue
    /\ Len(cv._workers) = cv.num_workers
    /\ \A i \in DOMAIN cv._workers : procs[cv._workers[i]].input_queue = cv._input_queue

\* C15, the puts: the step that begins the shutdown of a started pool of N
\* workers with an intact input channel appends exactly N stop signals.
C15_PutsN ==
    \A c \in DOMAIN caller :
        (caller[c].pc = "idle" /\ caller'[c].pc = "join" /\ PoolIntact(conv))
        => inq'[conv._input_queue]
               = inq[conv._input_queue] \o [i \in 1..conv.num_workers |-> NoneTask]

\* C15, the gets: a worker that dequeues a stop signal takes one signal,
\* exits in that step and puts nothing, so it never takes a second one.
C15_GetsOne ==
    \A p \in DOMAIN procs :
        (procs[p].pc = "get" /\ procs'[p].pc # "get"
            /\ inq[procs[p].input_queue] # <<>>
            /\ Head(inq[procs[p].input_queue]) = NoneTask
            /\ procs'[p].pc # "terminated")
        => /\ procs'[p].pc = "exited"
           /\ inq'[procs[p].input_queue] = Tail(inq[procs[p].input_queue])
           /\ outq' = outq

\* C15, enough for all: while such a shutdown waits for the workers, the
\* input queue holds at least one stop signal per live worker of the pool.
C15_OnePerLiveWorker ==
    \A c \in DOMAIN caller :
        (caller[c].pc = "join" /\ PoolIntact(conv))
        => Cardinality(Sentinels(conv._input_queue))
               >= Cardinality(LiveWorkers(conv, procs))

\* C15: on shutdown of a started pool of N workers with an intact input
\* channel exactly N stop signals are put, a worker that dequeues one exits
\* and never takes a second, and no live worker is left without one.
C15_OneSentinelEach ==
    /\ []C15_OnePerLiveWorker
    /\ [][C15_PutsN /\ C15_GetsOne]_vars

\* C15 witness: during the shutdown of a pool of two workers both have
\* taken their stop signal and exited, and the input queue is empty.
C15_Witness ==
    /\ caller[1].pc = "join"
    /\ conv.num_workers = 2
    /\ PoolIntact(conv)
    /\ inq[conv._input_queue] = <<>>
    /\ \A i \in DOMAIN conv._workers : procs[conv._workers[i]].pc = "exited"

\* a call of _shutdown_workers on a started pool is in its join loop
ShuttingDown == \E c \in DOMAIN caller : caller[c].pc = "join"

\* the processes with a handle in the list
Handles(cv) == {cv._workers[i] : i \in DOMAIN cv._workers}

\* every launched process that is still running has its handle in the list
NoWorkerOutlivesHandle ==
    \A p \in DOMAIN procs : Alive(procs[p]) => p \in Handles(conv)

\* C16: once _shutdown_workers has been called on a started pool, a state
\* follows in which the handle list is cleared and none of the processes
\* the pool launched is running; and at no time is a process running whose
\* handle has been cleared from the list.
C16_WorkersEventuallyStop ==
    /\ []NoWorkerOutlivesHandle
    /\ ShuttingDown ~> (/\ conv._workers = <<>>
                        /\ \A p \in DOMAIN procs : ~Alive(procs[p]))

\* C16 witness: the shutdown of a pool of two workers has returned; one
\* worker had to be terminated, and no process is running.
C16_Witness ==
    /\ caller[1].pc = "idle"
    /\ caller[1].ret = ReturnedNone("_shutdown_workers")
    /\ conv._workers = <<>>
    /\ Len(procs) >= 2
    /\ \E p \in DOMAIN procs : procs[p].died = "terminate"
    /\ \A p \in DOMAIN procs : ~Alive(procs[p])

\* C17, the signals: the step that begins _shutdown_workers on a started
\* pool without input channel raises nothing and puts no stop signal.
C17_PutsNothing ==
    \A c \in DOMAIN caller :
        (caller[c].pc = "idle" /\ \E e \in BodyExceptions \cup {"explicit"} :
              IF e = "explicit" THEN ShutdownBegin(c) ELSE Exit(c, e))
        /\ conv._worker_started /\ conv._input_queue = NoQueue
        => /\ caller'[c].pc = "join"
           /\ inq' = inq
           /\ procs' = procs

\* C17, the wait: each pass of the join loop of such a shutdown leaves the
\* process of its handle ended, by itself or by terminate().
C17_Terminates ==
    \A c \in DOMAIN caller :
        (caller[c].pc = "join" /\ caller'[c].pc = "join"
            /\ caller'[c].j = caller[c].j + 1
            /\ conv._input_queue = NoQueue)
        => ~Alive(procs'[conv._workers[caller[c].j]])

\* C17, the end: such a shutdown returns with started=False and an empty
\* handle list, no process of the handle list alive.
C17_Clears ==
    \A c \in DOMAIN caller :
        (ShutdownReturns(c) /\ conv._input_queue = NoQueue)
        => /\ caller'[c].ret.kind = (IF caller[c].exc = "none" THEN "None"
                                                             ELSE caller[c].exc)
           /\ ~conv'._worker_started
           /\ conv'._workers = <<>>
           /\ \A p \in Handles(conv) : ~Alive(procs'[p])

\* C17: _shutdown_workers on a started pool whose input channel is None
\* raises nothing, puts no stop signal, still joins and terminates every
\* worker, and ends with started=False and an empty handle list.
C17_ShutdownWithoutInputQueue ==
    [][C17_PutsNothing /\ C17_Terminates /\ C17_Clears]_vars

\* C17 witness: the join loop of a shutdown of a pool of two workers whose
\* input channel was set to None is through: no stop signal was put, both
\* workers were terminated, the closing statements are next.
C17_Witness ==
    /\ caller[1].pc = "join"
    /\ conv.num_workers = 2
    /\ conv._worker_started
    /\ conv._input_queue = NoQueue
    /\ caller[1].j > Len(conv._workers)
    /\ \A q \in DOMAIN inq : inq[q] = <<>>
    /\ \A p \in Handles(conv) : procs[p].pc = "terminated"

\* the step in which a with statement ends after its body
WithEnds(c) == caller[c].ctx \in {"body", "exit"} /\ caller'[c].ctx = "out"

\* C18 (stated as claimed; the code violates it): when a with statement
\* ends, after a body that ended normally or by an exception, the pool is
\* unstarted and the handle list is empty, and an exception of the body
\* propagates.
C18_ExitShutsDown ==
    [][\A c \in DOMAIN caller :
          WithEnds(c)
          => /\ ~conv'._worker_started
             /\ conv'._workers = <<>>
             /\ (caller[c].ctx = "exit" /\ caller[c].exc # "none")
                    => caller'[c].ret.kind = caller[c].exc]_vars

\* What __exit__ does give: the pool is unstarted and an exception of the
\* body propagates; the handle list is empty if the pool was started when
\* the body ended.
ExitShutsDownStartedPool ==
    [][\A c \in DOMAIN caller :
          WithEnds(c)
          => /\ ~conv'._worker_started
             /\ (caller[c].ctx = "exit") => conv'._workers = <<>>
             /\ (caller[c].ctx = "exit" /\ caller[c].exc # "none")
                    => caller'[c].ret.kind = caller[c].exc]_vars

\* the step in which __enter__ returns and the body of the with begins
BodyBegins(c) == caller[c].ctx = "out" /\ caller'[c].ctx = "body"

\* C19: when __enter__ returns, the pool is started if and only if a
\* positive worker count was configured: with num_workers = n > 0, entered
\* on a pool as the constructor or a shutdown left it, the body begins with
\* started=True and n handles of n running processes; with num_workers None
\* or 0 it begins with started=False and no worker process at all.
C19_EnterStartsIffPositive ==
    [][\A c \in DOMAIN caller :
          BodyBegins(c)
          => IF conv.num_workers # NumWorkersNone /\ conv.num_workers > 0
             THEN /\ conv'._worker_started
                  /\ NeverStartedOrShutDown(conv)
                        => /\ Len(conv'._workers) = conv.num_workers
                           /\ Cardinality(LiveWorkers(conv', procs')) = conv.num_workers
                           /\ Cardinality(Launched) = conv.num_workers
             ELSE /\ ~conv'._worker_started
                  /\ conv'._workers = <<>>
                  /\ procs' = <<>>]_vars

\* C19 witness: the body of a with on a converter of two workers has begun:
\* the pool is started and two processes wait on its input queue.
C19_Witness ==
    /\ caller[1].ctx = "body"
    /\ caller[1].ret = ReturnedNone("__enter__")
    /\ conv.num_workers = 2
    /\ conv._worker_started
    /\ Len(procs) = 2
    /\ \A p \in DOMAIN procs : procs[p].pc = "get"

\* the converter as constructed: no worker, nothing started
AsConstructed ==
    /\ ~conv._worker_started
    /\ conv._workers = <<>>
    /\ procs = <<>>

\* the step of a submit that starts the pool: on an unstarted pool with
\* num_workers = n > 0 it launches exactly n processes, and no task is on a
\* queue yet
C20_StartsBeforePut ==
    \A c \in DOMAIN caller :
        (caller[c].pc = "submit" /\ caller'[c].pc = "put" /\ ~conv._worker_started)
        => /\ conv.num_workers > 0
           /\ Cardinality(Launched) = conv.num_workers
           /\ \A p \in Launched : Alive(procs'[p])
           /\ conv'._worker_started
           /\ tasklog' = tasklog
           /\ inq'[conv'._input_queue] = <<>>

\* the step of a submit that puts the task, and the step that ends the
\* call, find and leave the pool started
C20_StartedAfter ==
    \A c \in DOMAIN caller :
        (caller[c].pc \in {"put", "get"} /\ caller'[c].pc # caller[c].pc)
        => conv._worker_started /\ conv'._worker_started

\* C20: a converter is constructed with no worker and started=False; the
\* first submit on an unstarted pool with num_workers = n > 0 starts exactly
\* n workers before it puts its task, and the pool is started when the call
\* ends.
C20_LazyActivation ==
    /\ AsConstructed
    /\ [][C20_StartsBeforePut /\ C20_StartedAfter]_vars

\* C20 witness: a conversion call on a converter of two workers that was
\* never started explicitly has returned its result; the pool is started
\* with two processes.
C20_Witness ==
    /\ caller[1].pc = "idle"
    /\ caller[1].ctx = "out"
    /\ caller[1].ret.kind = "ConversionResult"
    /\ conv.num_workers = 2
    /\ conv._worker_started
    /\ conv._task_counter = 1
    /\ Len(inq) = 1
    /\ Len(procs) = 2

\* the thread is outside every with block
OutsideWith(c) == caller[c].ctx = "out"

\* C21 (as claimed; it fails on the code): a conversion call made outside
\* a with block is served by the per-call strategy - no step of it starts
\* the pool, launches a worker process or puts a task on an input queue.
C21_PerCallOutsideWith ==
    [][\A c \in DOMAIN caller :
          (OutsideWith(c) /\ caller[c].pc \in {"submit", "put"}
               /\ caller'[c].pc # caller[c].pc)
          => /\ conv'._worker_started = conv._worker_started
             /\ procs' = procs
             /\ tasklog' = tasklog]_vars

\* a positive worker count was configured
PositiveWorkers(cv) == cv.num_workers # NumWorkersNone /\ cv.num_workers >= 1

\* C21, amended: the strategy follows num_workers alone, inside a with
\* block and outside of one.  A call on a converter without a positive
\* worker count is served by the per-call strategy: it returns what the
\* to_* method of subprocess mode yields, starts no pool, launches no
\* process and puts no task.  A call on a converter with a positive worker
\* count goes to the pool, which it starts if it is not started.
C21_StrategyFollowsNumWorkers ==
    [][\A c \in DOMAIN caller :
          (caller[c].pc = "submit" /\ caller'[c].pc # "submit")
          => IF PositiveWorkers(conv)
             THEN \/ caller'[c].pc = "put" /\ conv'._worker_started
                  \/ caller'[c].ret = ProcessStartError
             ELSE /\ caller'[c].pc = "idle"
                  /\ caller'[c].ret.kind \in {"ConversionResult", "RuntimeError"}
                  /\ ~conv'._worker_started
                  /\ procs' = <<>>
                  /\ tasklog' = <<>>]_vars

\* C21 witness: outside a with block, a converter constructed without
\* num_workers has returned the text of a document; no process was ever
\* launched and no task was ever put.
C21_Witness ==
    /\ caller[1].ctx = "out"
    /\ conv.num_workers = NumWorkersNone
    /\ caller[1].pc = "idle"
    /\ caller[1].output_format = "txt"
    /\ caller[1].ret.kind = "ConversionResult"
    /\ caller[1].ret.content = <<"xhtml", "doc.hwp", "[w](u)", "_w_", "<nl>">>
    /\ procs = <<>>
    /\ tasklog = <<>>

\* both strategies have post-processed the thread's HTML
BothPostprocessed(c) == caller[c].worker # None /\ caller[c].percall # None

\* C22 (as claimed; the code violates it): for the same intermediate HTML
\* and the same target format, txt or markdown, the post-processing of the
\* persistent worker and that of the per-call strategy yield the same
\* primary content.
C22_StrategyEquivalence ==
    \A c \in DOMAIN caller :
        BothPostprocessed(c) => caller[c].worker = caller[c].percall

\* the same up to the whitespace at either end (violated as well: the
\* worker drops link destinations and emphasis marks and leaves entities
\* escaped)
AgreeUpToWhitespace ==
    \A c \in DOMAIN caller :
        BothPostprocessed(c) => strip(caller[c].worker) = strip(caller[c].percall)

\* what does hold: the two agree up to whitespace on an HTML body of plain
\* words, images and asterisks
AgreeOnPlainText ==
    \A c \in DOMAIN caller :
        (/\ BothPostprocessed(c)
         /\ caller[c].output_format = "txt"
         /\ \A i \in DOMAIN caller[c].html : caller[c].html[i] \in {"w", "img", "star"})
        => strip(caller[c].worker) = strip(caller[c].percall)

\* the task the thread waits for, as an entry of the task log
Awaited(c) == [queue |-> conv._input_queue, task_id |-> caller[c].task_id]

\* The thread waits for the result of a task that a worker dequeued and that
\* no process works on any more, and no result for it was ever put: the
\* worker that dequeued it died before reporting.
Lost(c) ==
    /\ caller[c].pc = "get"
    /\ conv._input_queue # NoQueue
    /\ ~Waiting(Awaited(c))
    /\ ~InHand(Awaited(c))
    /\ Produced(caller[c].task_id) = 0
    /\ \E p \in DOMAIN procs :
          procs[p].died = "mkdtemp" /\ procs[p].input_queue = conv._input_queue

\* C23: once the worker that dequeued a task has died before putting a
\* WorkerResult, the submit call that pushed the task never returns: in
\* every later state the call is still in its read of the output queue, no
\* result for the task exists and the task is on no queue and in no
\* worker's hands - whatever the other workers of the pool do.
C23_LostTaskBlocksForever ==
    [][\A c \in DOMAIN caller : Lost(c) => Lost(c)']_vars

\* C23 witness: on a pool of two workers the worker that dequeued the task
\* of the waiting call died in mkdtemp; the other worker is alive and idle.
C23_Witness ==
    /\ Lost(1)
    /\ conv.num_workers = 2
    /\ \E p \in DOMAIN procs : procs[p].pc = "crashed" /\ procs[p].died = "mkdtemp"
    /\ \E p \in DOMAIN procs :
          /\ procs[p].pc = "get"
          /\ procs[p].input_queue = conv._input_queue
          /\ inq[conv._input_queue] = <<>>

\* the places on the input queues at which a task with task_id id waits
InQueue(id) ==
    UNION {{<<q, i>> : i \in {j \in DOMAIN inq[q] : inq[q][j].task_id = id}} :
              q \in DOMAIN inq}

\* the workers that have a task with task_id id in their hands
Holding(id) == {p \in DOMAIN procs : procs[p].task.task_id = id}

\* every task that was put is, at any time, at one place at most: on a
\* queue once, or in the hands of one worker
C24_OnePlace ==
    \A k \in DOMAIN tasklog :
        Cardinality(InQueue(tasklog[k].task_id))
            + Cardinality(Holding(tasklog[k].task_id)) <= 1

\* worker p dequeues a task in this step
Dequeues(p) == procs[p].pc = "get" /\ procs'[p].pc = "mkdtemp"

\* the step in which a worker dequeues a task takes the task off the queue
\* and gives it to that worker alone, and the task was not executed before
C24_GetTakes ==
    \A p \in DOMAIN procs :
        Dequeues(p)
        => LET q == procs[p].input_queue IN
           /\ procs'[p].task = Head(inq[q])
           /\ inq' = [inq EXCEPT ![q] = Tail(inq[q])]
           /\ \A o \in DOMAIN procs \ {p} : procs'[o] = procs[o]
           /\ Produced(procs'[p].task.task_id) = 0

\* a task that was put once is never put on a queue again
C24_NeverRequeued ==
    \A q \in DOMAIN inq :
        \A i \in DOMAIN inq'[q] :
            (i > Len(inq[q]) /\ inq'[q][i] # NoneTask)
            => \A k \in DOMAIN tasklog : tasklog[k].task_id # inq'[q][i].task_id

\* C24: every task put on the input queue is dequeued by at most one worker
\* of the pool, whatever the number of workers and however their steps
\* interleave: no two workers ever execute the same task_id.
C24_DequeuedAtMostOnce ==
    /\ []C24_OnePlace
    /\ [][C24_GetTakes /\ C24_NeverRequeued]_vars

\* C24 witness: of two workers that waited on the same input queue one has
\* dequeued the task and works on it; the other still waits, the queue is
\* empty.
C24_Witness ==
    /\ conv.num_workers = 2
    /\ Len(tasklog) = 1
    /\ \E p, o \in DOMAIN procs :
          /\ procs[p].pc = "try"
          /\ procs[p].task.task_id = tasklog[1].task_id
          /\ procs[o].pc = "get"
          /\ procs[o].input_queue = procs[p].input_queue
          /\ inq[procs[o].input_queue] = <<>>

\* worker p has dequeued a task of a format that is none of txt, html,
\* markdown, odt
Unsupported(p) ==
    /\ procs[p].task # NoneTask
    /\ procs[p].task.output_format \notin SUPPORTED_FORMATS

\* the step of worker p puts one WorkerResult, a failure that echoes the
\* task_id and names the format
AnswersUnsupported(p) ==
    LET q == procs[p].output_queue
        r == outq'[q][Len(outq'[q])]
    IN /\ Len(outq'[q]) = Len(outq[q]) + 1
       /\ r.task_id = procs[p].task.task_id
       /\ ~r.success
       /\ r.content = None
       /\ Contains(r.error, <<procs[p].task.output_format>>)

\* C25 (as claimed; the code violates it): a worker that has dequeued a
\* task of an unsupported format answers it with a failure WorkerResult for
\* its task_id, error naming the format, no exception leaves worker_main
\* and the worker goes back to waiting on the input queue.
C25_UnsupportedFormatAnswered ==
    [][\A p \in DOMAIN procs :
          (Unsupported(p) /\ procs'[p] # procs[p])
          => /\ procs'[p].pc # "crashed"
             /\ procs[p].pc = "try" => AnswersUnsupported(p)
             /\ procs'[p].pc = "get" => Produced(procs[p].task.task_id) = 1]_vars

\* what does hold: the format dispatch of such a task raises no uncaught
\* exception - its step puts the failure result and goes on to the finally
\* block
UnsupportedFormatDispatch ==
    [][\A p \in DOMAIN procs :
          (Unsupported(p) /\ procs[p].pc = "try" /\ procs'[p] # procs[p])
          => AnswersUnsupported(p) /\ procs'[p].pc = "finally"]_vars

\* the thread's ODT conversion has ended, and the hwp5odt command exits
\* non-zero for its document
OdtCommandFailed(c) ==
    /\ caller[c].pc = "idle"
    /\ caller[c].output_format = "odt"
    /\ caller[c].ret.kind \notin {"none", "OSError"}
    /\ Hwp5Odt(caller[c].file_path).returncode # 0

\* how the failure of the hwp5odt command for the thread's document has to
\* surface: the distinguished message with the recommendation if stderr
\* mentions RelaxNG or ValidationFailed, the generic message with the stderr
\* text otherwise
SurfacesAsClaimed(c) ==
    LET stderr == Hwp5Odt(caller[c].file_path).stderr IN
    /\ caller[c].ret.kind = "RuntimeError"
    /\ IF Mentions(stderr, "RelaxNG") \/ Mentions(stderr, "ValidationFailed")
       THEN /\ Contains(caller[c].ret.msg, <<"HTML or Markdown is recommended.">>)
            /\ Contains(caller[c].ret.msg,
                        <<"ODT conversion failed (RelaxNG validation error): ">>)
       ELSE /\ Contains(caller[c].ret.msg, <<"ODT conversion failed: ">>)
            /\ Contains(caller[c].ret.msg, stderr)

\* C26 (as claimed; the code violates it): whichever strategy serves the
\* request, an ODT conversion whose command exits non-zero with stderr
\* mentioning RelaxNG or ValidationFailed raises the distinguished
\* structural-validation failure that recommends HTML or Markdown, and any
\* other non-zero exit raises the generic ODT failure with the stderr text.
C26_OdtFailureSurfaces ==
    \A c \in DOMAIN caller : OdtCommandFailed(c) => SurfacesAsClaimed(c)

\* what does hold: the per-call strategy surfaces both failures as claimed,
\* the worker strategy the generic one
OdtFailureSurfacesPerCall ==
    \A c \in DOMAIN caller :
        (/\ OdtCommandFailed(c)
         /\ \/ ~PositiveWorkers(conv)
            \/ ~Mentions(Hwp5Odt(caller[c].file_path).stderr, "RelaxNG"))
        => SurfacesAsClaimed(c)

\* success=True with content and without error, or success=False without
\* content and with error
WellFormed(r) ==
    IF r.success THEN r.content # None /\ r.error = None
                 ELSE r.content = None /\ r.error # None

\* the WorkerResults that this step puts on output queue q
NewResults(q) == SubSeq(outq'[q], Len(outq[q]) + 1, Len(outq'[q]))

\* C27: every WorkerResult put on the output queue echoes the task_id of
\* the task the putting worker has in its hands and is well-formed;
\* css_content and bindata are set only in the result of an html task.
C27_ResultsWellFormed ==
    [][\A p \in DOMAIN procs :
          (procs[p].pc = "try" /\ procs'[p].pc # "try")
          => LET put == NewResults(procs[p].output_queue) IN
             \A i \in DOMAIN put :
                 /\ put[i].task_id = procs[p].task.task_id
                 /\ WellFormed(put[i])
                 /\ (put[i].css_content # None \/ put[i].bindata # None)
                        => procs[p].task.output_format = "html"
                 /\ (put[i].success /\ procs[p].task.output_format = "html")
                        => put[i].css_content # None /\ put[i].bindata # None]_vars

\* C27 witness: after a failure result for task 1, the result of the html
\* task 2 is on the output queue with content, css_content and bindata.
C27_Witness ==
    /\ Len(outlog) = 2
    /\ ~outlog[1].success
    /\ \E q \in DOMAIN outq :
          /\ outq[q] # <<>>
          /\ outq[q][1].task_id = 2
          /\ outq[q][1].success
          /\ outq[q][1].content = <<"xhtml", "doc.hwp", "link", "em">>
          /\ outq[q][1].css_content = <<"css", "doc.hwp">>
          /\ outq[q][1].bindata = <<"bindata", "doc.hwp">>
          /\ outq[q][1].error = None

\* C28 (as claimed; the code violates it): a caller that has received the
\* outcome of a task never finds that task's scratch directory existing.
C28_CleanupBeforeOutcome ==
    \A c \in DOMAIN caller :
        caller[c].got # NoResult
        => ~\E d \in dirs : d.task_id = caller[c].got.task_id

\* the order the code has: the outcome is put while the scratch directory
\* of the task exists, and the directory is removed in a later step
OutcomeBeforeCleanup ==
    [][\A p \in DOMAIN procs :
          (procs[p].pc = "try" /\ procs'[p].pc = "finally")
          => /\ Produced(procs[p].task.task_id)' = 1
             /\ \E d \in dirs' : d.owner = p /\ d.task_id = procs[p].task.task_id]_vars

\* Task b was put after task a; worker p is about to run the try block for
\* b while a is still in the hands of another worker of the pool, and
\* neither has an outcome.
BothOutstanding(p, o) ==
    /\ procs[p].pc = "try"
    /\ procs[o].pc \in {"mkdtemp", "try"}
    /\ procs[o].input_queue = procs[p].input_queue
    /\ procs[o].task.task_id < procs[p].task.task_id
    /\ Produced(procs[o].task.task_id) = 0
    /\ Produced(procs[p].task.task_id) = 0

\* C29: completion order is not bound to submission order.  With two
\* tasks A then B outstanding on two workers, the worker of B does not wait
\* for A: whenever it runs its try block first, B's outcome goes on the
\* output queue at once and A is still unanswered - the state in which B's
\* outcome is on the output queue before A's.
C29_LaterTaskMayFinishFirst ==
    [][\A p, o \in DOMAIN procs :
          (BothOutstanding(p, o) /\ procs'[p].pc = "finally")
          => LET q == procs[p].output_queue IN
             /\ Len(outq'[q]) = Len(outq[q]) + 1
             /\ outq'[q][Len(outq'[q])].task_id = procs[p].task.task_id
             /\ Produced(procs[p].task.task_id)' = 1
             /\ Produced(procs[o].task.task_id)' = 0]_vars

\* C29 witness: tasks 1 and 2 were put in this order; the outcome of task 2
\* is on the output queue, task 1 is still in a worker's hands and has no
\* outcome.
C29_Witness ==
    /\ Len(tasklog) = 2
    /\ tasklog[1].task_id = 1
    /\ tasklog[2].task_id = 2
    /\ Produced(1) = 0
    /\ \E q \in DOMAIN outq : outq[q] # <<>> /\ outq[q][1].task_id = 2
    /\ \E o \in DOMAIN procs : procs[o].pc = "try" /\ procs[o].task.task_id = 1

\* number of tasks, stop signals not counted, on the first k of the queues qs
RECURSIVE TasksIn(_, _)
TasksIn(qs, k) ==
    IF k = 0 THEN 0
    ELSE Cardinality({i \in DOMAIN qs[k] : qs[k][i] # NoneTask}) + TasksIn(qs, k - 1)

\* thread c puts its task in this step
Puts(c) == caller[c].pc = "put" /\ caller'[c].pc = "get"

\* the step in which a submit call puts its task adds exactly one task to
\* the input queues; no other step adds one - not the read of a failure
\* outcome, not a step of a worker
C30_OnePutPerSubmit ==
    IF \E c \in DOMAIN caller : Puts(c)
    THEN /\ TasksIn(inq', Len(inq')) = TasksIn(inq, Len(inq)) + 1
         /\ Len(tasklog') = Len(tasklog) + 1
    ELSE /\ TasksIn(inq', Len(inq')) <= TasksIn(inq, Len(inq))
         /\ tasklog' = tasklog

\* the number of tasks ever enqueued is the number of submit calls, the call
\* that has counted itself and is about to put its task set aside
C30_EnqueuedIsSubmitted ==
    Len(tasklog) + Cardinality({c \in DOMAIN caller : caller[c].pc = "put"})
        = conv._task_counter

\* C30: the pool never retries.  Each submit call puts exactly one task on
\* the input queue, a failure outcome never causes a task to be enqueued
\* again, and the number of tasks ever enqueued equals the number of submit
\* calls.
C30_NeverRetries ==
    /\ []C30_EnqueuedIsSubmitted
    /\ [][C30_OnePutPerSubmit]_vars

\* C30 witness: the one submit call so far has ended with the RuntimeError
\* of a failure outcome; one task was ever enqueued, the input queue is
\* empty and the worker waits again.
C30_Witness ==
    /\ caller[1].pc = "idle"
    /\ caller[1].ret.kind = "RuntimeError"
    /\ ~caller[1].got.success
    /\ caller[1].got.task_id = 1
    /\ conv._task_counter = 1
    /\ Len(tasklog) = 1
    /\ conv._worker_started
    /\ inq[conv._input_queue] = <<>>
    /\ \A p \in DOMAIN procs : procs[p].pc = "get"

\* worker p leaves worker_main in this step: the function returns, or an
\* exception ends it (a process that shutdown terminates is stopped from
\* outside, not by a task)
LeavesLoop(p) == Alive(procs[p]) /\ procs'[p].pc \in {"exited", "crashed"}

\* C31 (stated as claimed; the code violates it): the step in which a worker
\* leaves worker_main is the one that dequeues a stop sentinel - no step of
\* a task, its scratch-directory creation and cleanup included, makes the
\* function return or die - and that step puts no WorkerResult on an output
\* queue.
C31_LeavesOnlyBySentinel ==
    [][\A p \in DOMAIN procs :
          LeavesLoop(p) =>
              /\ procs[p].pc = "get"
              /\ Head(inq[procs[p].input_queue]) = NoneTask
              /\ outq' = outq
              /\ outlog' = outlog]_vars

\* What the loop does give: a worker leaves worker_main by a stop sentinel
\* or by an exception of mkdtemp or rmtree, never by the conversion of a
\* task, and the stop sentinel produces no WorkerResult.
LeavesBySentinelOrScratchError ==
    [][\A p \in DOMAIN procs :
          LeavesLoop(p) =>
              \/ /\ procs[p].pc = "get"
                 /\ Head(inq[procs[p].input_queue]) = NoneTask
                 /\ outq' = outq
                 /\ outlog' = outlog
              \/ procs[p].pc \in {"mkdtemp", "finally"}]_vars

\* the call of thread c ends in this step on one of the exit paths of the
\* try block: a result is returned, or the RuntimeError of a non-zero exit
\* or of a missing output file is raised
EndsOnTryPath(c) ==
    /\ caller[c].pc = "cleanup"
    /\ caller'[c].pc = "idle"
    /\ caller'[c].ret.kind \in {"HTMLDirResult", "ConversionResult", "RuntimeError"}

\* C32: in the per-call strategy, the step in which to_html / to_odt ends
\* by returning its result, by the RuntimeError of a non-zero exit of the
\* command or by the RuntimeError of a missing output file leaves no scratch
\* directory of the call: the directory made for it and everything the
\* command wrote into it is gone, and no other directory appeared.
C32_PerCallScratchRemoved ==
    [][\A c \in DOMAIN caller :
          EndsOnTryPath(c) =>
              /\ \A d \in dirs' :
                    ~(d.owner = CallingProcess /\ d.task_id = caller[c].temp_dir)
              /\ dirs' \subseteq dirs
              /\ \E d \in dirs :
                    d.owner = CallingProcess /\ d.task_id = caller[c].temp_dir]_vars

\* C32 witness: a to_odt call whose command wrote no output file has ended
\* with the RuntimeError, and no directory exists.
C32_Witness ==
    /\ caller[1].pc = "idle"
    /\ caller[1].output_format = "odt"
    /\ caller[1].temp_dir # 0
    /\ caller[1].ret.kind = "RuntimeError"
    /\ Contains(caller[1].ret.msg, <<"ODT conversion failed: no result file - ">>)
    /\ dirs = {}

\* a call of _convert_via_worker / _convert_html_via_worker is in progress
SubmitInProgress == \E c \in DOMAIN caller : caller[c].pc \in {"submit", "put", "get"}

\* the tasks on input queue q (stop sentinels are not tasks)
PendingTasks(q) == {i \in DOMAIN inq[q] : inq[q][i] # NoneTask}

\* C33: with one calling thread, whenever no submit call is in progress no
\* task is pending on an input queue and no result is unread on an output
\* queue - on the channels of the pool and on every channel it had before.
C33_ChannelsEmptyBetweenSubmits ==
    ~SubmitInProgress =>
        /\ \A q \in DOMAIN inq : PendingTasks(q) = {}
        /\ \A q \in DOMAIN outq : outq[q] = <<>>

\* C33 witness: a successful and then a failing submit have ended on a pool
\* that is still started, and its two channels are empty.
C33_Witness ==
    /\ ~SubmitInProgress
    /\ caller[1].pc = "idle"
    /\ conv._worker_started
    /\ conv._task_counter = 2
    /\ Len(outlog) = 2
    /\ outlog[1].success
    /\ ~outlog[2].success
    /\ caller[1].ret.kind = "RuntimeError"
    /\ inq[conv._input_queue] = <<>>
    /\ outq[conv._output_queue] = <<>>

\* C34 (stated as claimed; the code violates it): in every state reached by
\* starts, submits, shutdowns and with blocks, a started pool has exactly
\* num_workers handles and both channels, and a pool that is not started
\* has an empty handle list and no channel.
C34_PoolConsistent ==
    /\ conv._worker_started =>
          /\ Len(conv._workers) = conv.num_workers
          /\ conv._input_queue # NoQueue
          /\ conv._output_queue # NoQueue
    /\ ~conv._worker_started =>
          /\ conv._workers = <<>>
          /\ conv._input_queue = NoQueue
          /\ conv._output_queue = NoQueue

\* the number of workers the pool is configured for
Configured(cv) == IF _use_worker(cv) THEN cv.num_workers ELSE 0

\* C35 (stated as claimed; the code violates it): in every reachable state,
\* also after a _start_workers in which a launch raised part-way and a later
\* start, the handle list holds at most num_workers handles, and every
\* launched process that still runs has its handle in the list.
C35_HandlesBounded ==
    /\ Len(conv._workers) <= Configured(conv)
    /\ NoWorkerOutlivesHandle

\* the submit of thread c starts the pool in this step, and a pool had been
\* started and shut down before
RestartsPool(c) ==
    /\ caller[c].pc = "submit"
    /\ caller'[c].pc = "put"
    /\ ~conv._worker_started
    /\ inq # <<>>

\* the submit of thread c reads a WorkerResult in this step
ReadsResult(c) ==
    caller[c].pc = "get" /\ caller'[c].pc = "idle" /\ caller'[c].got # NoResult

\* C36: the submit that finds the pool shut down starts num_workers new
\* processes on two channels that did not exist before and are empty, and
\* makes them the channels of the started pool; and the WorkerResult a
\* submit reads is the result of a task put on the input channel the pool
\* has now, never one produced for a task of the pool before the shutdown.
C36_ReusableAfterShutdown ==
    [][\A c \in DOMAIN caller :
          /\ RestartsPool(c) =>
                /\ conv'._worker_started
                /\ Cardinality(Launched) = conv.num_workers
                /\ conv'._input_queue \notin DOMAIN inq
                /\ conv'._output_queue \notin DOMAIN outq
                /\ inq'[conv'._input_queue] = <<>>
                /\ outq'[conv'._output_queue] = <<>>
                /\ \A p \in Launched :
                      /\ Alive(procs'[p])
                      /\ procs'[p].input_queue = conv'._input_queue
                      /\ procs'[p].output_queue = conv'._output_queue
                      /\ p \in Handles(conv')
          /\ ReadsResult(c) =>
                \E k \in DOMAIN tasklog :
                    /\ tasklog[k].task_id = caller'[c].got.task_id
                    /\ tasklog[k].queue = conv._input_queue
                    /\ \A j \in DOMAIN tasklog :
                          tasklog[j].task_id = tasklog[k].task_id => j = k]_vars

\* C36 witness: a first submit read its result, the pool was shut down, and
\* a second submit restarted it and read the result of its own task from
\* the second output channel.
C36_Witness ==
    /\ Len(inq) = 2
    /\ conv._worker_started
    /\ conv._output_queue = 2
    /\ Len(tasklog) = 2
    /\ tasklog[1].queue = 1
    /\ tasklog[2].queue = 2
    /\ Produced(tasklog[1].task_id) = 1
    /\ caller[1].pc = "idle"
    /\ caller[1].got.task_id = tasklog[2].task_id

SomeWorkerDied == \E p \in DOMAIN procs : ~Alive(procs[p])

\* a task is pending on an input queue and every worker waits in get
PendingWithAllIdle(q) ==
    /\ PendingTasks(q) # {}
    /\ \A p \in DOMAIN procs : procs[p].pc = "get"

\* C37: on a pool of N >= 1 workers, as long as no worker has died, every
\* submit call that is in progress is followed by a state in which it has
\* returned a result or raised; and in no state is a task pending with all
\* workers idle and none of them able to dequeue it.
C37_SubmitEventuallyReturns ==
    /\ [](\A q \in DOMAIN inq :
            (PendingWithAllIdle(q) /\ ~SomeWorkerDied) =>
                \E p \in DOMAIN procs :
                    procs[p].pc = "get" /\ procs[p].input_queue = q)
    /\ \A c \in 1..1 :
          (caller[c].pc \in {"submit", "put", "get"})
              ~> (SomeWorkerDied
                    \/ (caller[c].pc = "idle"
                          /\ caller[c].ret.kind \in
                               {"ConversionResult", "HTMLDirResult", "RuntimeError"}))

\* C37 witness: on a pool of two workers, none of which died, the second
\* submit has returned after its task waited on the input queue and a
\* worker served it.
C37_Witness ==
    /\ conv.num_workers = 2
    /\ ~SomeWorkerDied
    /\ caller[1].pc = "idle"
    /\ caller[1].task_id = 2
    /\ caller[1].got.task_id = 2
    /\ caller[1].ret.kind \in {"ConversionResult", "HTMLDirResult", "RuntimeError"}

\* the task ids put on the input queue, in the order of the puts, up to
\* position n of the history
RECURSIVE TaskIdsPut(_)
TaskIdsPut(n) ==
    IF n = 0 THEN <<>>
    ELSE IF tasklog[n] = StopLogged THEN TaskIdsPut(n - 1)
    ELSE Append(TaskIdsPut(n - 1), tasklog[n].task_id)

\* the position of the stop sentinel in the history of the puts, 0 if it
\* was not put
StopPosition ==
    IF \E k \in DOMAIN tasklog : tasklog[k] = StopLogged
    THEN CHOOSE k \in DOMAIN tasklog : tasklog[k] = StopLogged
    ELSE 0

\* the task ids of the results, in the order they were put on the output
\* queue
ResultIds == [i \in DOMAIN outlog |-> outlog[i].task_id]

IsPrefix(s, t) == Len(s) <= Len(t) /\ SubSeq(t, 1, Len(s)) = s

\* C38 (stated as claimed; the code violates it): with one worker, the
\* results are put on the output queue in the order the tasks were put on
\* the input queue, one per task, and once the worker has left its loop
\* every task put ahead of the stop sentinel has its result.
C38_FifoOneWorker ==
    /\ IsPrefix(ResultIds, TaskIdsPut(Len(tasklog)))
    /\ (~Alive(procs[1]) /\ StopPosition # 0) =>
          IsPrefix(TaskIdsPut(StopPosition), ResultIds)

\* What the loop does give: the order, at most one result per task, and
\* every task ahead of the stop sentinel answered once the worker has left
\* its loop by dequeuing the sentinel.
FifoUnlessWorkerDied ==
    /\ IsPrefix(ResultIds, TaskIdsPut(Len(tasklog)))
    /\ procs[1].pc = "exited" =>
          /\ StopPosition # 0
          /\ ResultIds = TaskIdsPut(StopPosition)

\* thread c calls convert(p, f) in this step
Converts(c, p, f) ==
    /\ caller[c].pc = "idle"
    /\ caller'[c] # caller[c]
    /\ caller'[c].file_path = p
    /\ caller'[c].output_format = f

\* the call of thread c has ended in this step with exception kind and
\* message msg, no other
RaisesOnly(c, kind, msg) ==
    /\ caller'[c].pc = "idle"
    /\ caller'[c].ret = [kind |-> kind, msg |-> msg, content |-> None]

\* C39: a convert() call with an unsupported format raises the ValueError of
\* the format whatever the path is - a directory, a nonexistent path or a
\* document - and its message does not name the path; with a supported
\* format a directory raises ValueError and a nonexistent path
\* FileNotFoundError; a call raises one of these errors and nothing else,
\* and a call with a supported format and an existing file raises none of
\* them.
C39_ValidationPrecedence ==
    [][\A c \in DOMAIN caller : \A p \in Paths : \A f \in Formats :
          Converts(c, p, f) =>
              /\ f \notin SUPPORTED_FORMATS =>
                    RaisesOnly(c, "ValueError", <<"unsupported format: ", f>>)
              /\ (f \in SUPPORTED_FORMATS /\ IsDir(p)) =>
                    RaisesOnly(c, "ValueError", <<"a directory was given: ", p>>)
              /\ (f \in SUPPORTED_FORMATS /\ ~IsDir(p) /\ ~Exists(p)) =>
                    RaisesOnly(c, "FileNotFoundError", <<"file not found: ", p>>)
              /\ (f \in SUPPORTED_FORMATS /\ ~IsDir(p) /\ Exists(p)) =>
                    /\ caller'[c].pc = "submit"
                    /\ caller'[c].ret = NoRet]_vars

\* C39 witness: convert() of a nonexistent path to an unsupported format
\* has raised the ValueError of the format.
C39_Witness ==
    /\ caller[1].pc = "idle"
    /\ caller[1].file_path = "missing.hwp"
    /\ caller[1].output_format = "pdf"
    /\ caller[1].ret.kind = "ValueError"
    /\ caller[1].ret.msg = <<"unsupported format: ", "pdf">>

\* the statuses the loop of the convert command has received for file p
StatusesOf(cr, p) == {i \in DOMAIN cr.results : cr.results[i].file = p}

\* C40: no job of the convert command raises - the command is never ended
\* by what left convert_file; every completed job handed back one status
\* string that names its file: [Error] exactly when the format is
\* unsupported, [Success] only with the output written, [Fail] with the
\* message of the exception behind it; when the command is done every
\* target file has exactly one status, failing files included; and the
\* executor is made with the --workers value, or with 1 if that is below 1.
C40_ConvertFileNeverRaises ==
    \A c \in DOMAIN caller :
        LET cr == caller[c] IN
        /\ cr.pc # "aborted"
        /\ \A i \in DOMAIN cr.results :
              LET p == cr.results[i].file
                  s == cr.results[i].status
              IN /\ s[1] \in {"[Success] ", "[Error] ", "[Fail] "}
                 /\ s[2] = p
                 /\ s[1] = "[Error] " <=> cr.format \notin SUPPORTED_FORMATS
                 /\ s[1] = "[Success] " =>
                       /\ OutputName(p, cr.format) \in cr.written
                       /\ ~IsDir(p) /\ Exists(p)
                 /\ s[1] = "[Fail] " => Len(s) > 3
                 /\ (cr.format \in SUPPORTED_FORMATS /\ IsDir(p)) =>
                       s = <<"[Fail] ", p, ": ", "a directory was given: ", p>>
                 /\ (cr.format \in SUPPORTED_FORMATS /\ ~Exists(p)) =>
                       s = <<"[Fail] ", p, ": ", "file not found: ", p>>
                 /\ Cardinality(StatusesOf(cr, p)) = 1
        /\ cr.pc = "done" => Completed(cr) = cr.target_files
        /\ cr.pc = "pool" =>
              /\ cr.max_workers >= 1
              /\ cr.workers >= 1 => cr.max_workers = cr.workers
              /\ cr.workers < 1 => cr.max_workers = 1

\* C40 witness: a batch of a document and a nonexistent path, run with
\* --workers 0, is done: the nonexistent path has its [Fail], the document
\* was converted after it and has its [Success], and the executor had one
\* worker.
C40_Witness ==
    /\ caller[1].pc = "done"
    /\ caller[1].target_files = {"doc.hwp", "missing.hwp"}
    /\ caller[1].workers = 0
    /\ caller[1].max_workers = 1
    /\ Len(caller[1].results) = 2
    /\ caller[1].results[1].file = "missing.hwp"
    /\ caller[1].results[1].status[1] = "[Fail] "
    /\ caller[1].results[2].status[1] = "[Success] "

====
